---- MODULE Spec2Model ----
(***************************************************************************)
(* A model of pyFLUKAgeo's Geometry aggregate (src/geometry.py) and of the *)
(* Region and Usrbin collaborators (src/region.py, src/scorings.py).       *)
(*                                                                         *)
(* Strings of the program are TLA+ strings; a Python list is a sequence;   *)
(* list indices in results are 0-based as in the program.  A call that     *)
(* ends in exit(1) (or in an uncaught exception) sets halt to "exit".      *)
(***************************************************************************)
EXTENDS Integers, Sequences, FiniteSets, TLC

VARIABLES
    geo,    \* the geometry (or the geometries) the operations act on
    pre,    \* the value of geo before the last operation
    op,     \* the last operation and its arguments
    out,    \* what the last operation returned
    halt,   \* "run", or "exit" once a call has ended in exit(1) / an exception
    hist,   \* history of the calls made so far (what the claims refer back to)
    ps      \* the local variables of a running Geometry.fromInp

vars == <<geo, pre, op, out, halt, hist, ps>>

\* ------------------------------------------------------------------------
\* Small helpers
\* ------------------------------------------------------------------------

NoneVal == [none |-> TRUE]

ExitVal == [exit |-> TRUE]

NoPs == [on |-> FALSE]

Range(s) == { s[i] : i \in 1..Len(s) }

SeqMap(F(_), s) == [ i \in 1..Len(s) |-> F(s[i]) ]

RECURSIVE SelectIdx(_, _, _)
SelectIdx(s, P(_), i) ==
    IF i > Len(s) THEN << >>
    ELSE IF P(s[i]) THEN << i - 1 >> \o SelectIdx(s, P, i + 1)
    ELSE SelectIdx(s, P, i + 1)

\* index (1-based) of the first element of s satisfying P, 0 when there is none
RECURSIVE FirstIdx(_, _, _)
FirstIdx(s, P(_), i) ==
    IF i > Len(s) THEN 0
    ELSE IF P(s[i]) THEN i
    ELSE FirstIdx(s, P, i + 1)

RECURSIVE Dedup(_)
Dedup(s) ==
    IF s = << >> THEN << >>
    ELSE LET r == Dedup(SubSeq(s, 1, Len(s) - 1))
         IN  IF s[Len(s)] \in Range(r) THEN r ELSE Append(r, s[Len(s)])

\* all the orderings of the elements of a finite set
RECURSIVE Orderings(_)
Orderings(S) ==
    IF S = {} THEN { << >> }
    ELSE UNION { { << x >> \o t : t \in Orderings(S \ {x}) } : x \in S }

\* str.upper().startswith(p) on the selector strings the program uses: the
\* set of recognised prefixes each (upper-cased) selector starts with
UpperPrefixes(k) ==
    CASE k \in {"BOD", "BODY", "BODIES"}   -> {"BOD"}
      [] k = "BODSINREG"                   -> {"BOD", "BODSINREG"}
      [] k \in {"LAT", "LATTICES"}         -> {"LAT"}
      [] k \in {"REG", "REGIONS"}          -> {"REG"}
      [] k = "TRAS"                        -> {"TRAS"}
      [] k = "TRANSF"                      -> {"TRANSF"}
      [] k = "TRANSFLINKEDTOBODY"          -> {"TRANSF", "TRANSFLINKEDTOBODY"}
      [] k = "TRANSFLINKEDTOLAT"           -> {"TRANSF", "TRANSFLINKEDTOLAT"}
      [] k = "TRANSFLINKEDTOUSRBIN"        -> {"TRANSF", "TRANSFLINKEDTOUSRBIN"}
      [] k = "BIN"                         -> {"BIN"}
      [] k = "BININUNIT"                   -> {"BIN", "BININUNIT"}
      [] k = "USRBIN"                      -> {"USRBIN"}
      [] k = "USRBININUNIT"                -> {"USRBIN", "USRBININUNIT"}
      [] k = "SCO"                         -> {"SCO"}
      [] k = "SCORING"                     -> {"SCO", "SCORING"}
      [] k = "USRYIELD"                    -> {"USRYIELD"}
      [] k = "USRBDX"                      -> {"USRBDX"}
      [] k = "USRTRACK"                    -> {"USRTRACK"}
      [] k = "USRCOLL"                     -> {"USRCOLL"}
      [] k \in {"MAT", "MATERIALS"}        -> {"MAT"}
      [] OTHER                             -> {}

StartsWith(k, p) == p \in UpperPrefixes(k)

\* ------------------------------------------------------------------------
\* Entities.  A transform link is a name; "" is "not linked".
\* ------------------------------------------------------------------------

EmptyGeo == [bods |-> << >>, regs |-> << >>, tras |-> << >>,
             bins |-> << >>, scos |-> << >>, title |-> << >>]

Body(n, t) == [name |-> n, tr |-> t, def |-> << >>, comment |-> << >>]

Region(n) ==
    [name |-> n, neigh |-> 5, def |-> << >>, mat |-> "BLACKHOLE",
     lat |-> "", tr |-> "", rCont |-> 0, rCent |-> <<0, 0, 0>>,
     comment |-> << >>]

Transformation(id, n) == [name |-> n, ID |-> id, steps |-> << >>, comment |-> << >>]

Usrbin(n, t) == [name |-> n, tr |-> t, def |-> << >>, comment |-> << >>]

Scoring(n, c) == [name |-> n, cls |-> c, regs |-> << >>, comment |-> << >>]

\* isLinkedToTransform(): "len(self.TransfName)>0"
IsLinked(e) == Len(e.tr) > 0

IsLattice(r) == Len(r.lat) > 0

Names(s) == SeqMap(LAMBDA e : e.name, s)

AllIdx(s) == [ i \in 1..Len(s) |-> i - 1 ]

\* ------------------------------------------------------------------------
\* Geometry.add
\* ------------------------------------------------------------------------

\* Geometry.add with insert(0,...) in place of append
AddFront(g, el, what) ==
    IF StartsWith(what, "BOD") THEN [g EXCEPT !.bods = <<el>> \o @]
    ELSE IF StartsWith(what, "REG") THEN [g EXCEPT !.regs = <<el>> \o @]
    ELSE IF StartsWith(what, "TRAS") \/ StartsWith(what, "TRANSF")
         THEN [g EXCEPT !.tras = <<el>> \o @]
    ELSE IF StartsWith(what, "BIN") \/ StartsWith(what, "USRBIN")
         THEN [g EXCEPT !.bins = <<el>> \o @]
    ELSE IF StartsWith(what, "SCO") \/ StartsWith(what, "SCORING")
         THEN [g EXCEPT !.scos = <<el>> \o @]
    ELSE ExitVal

Add(g, el, what) ==
    IF StartsWith(what, "BOD") THEN [g EXCEPT !.bods = Append(@, el)]
    ELSE IF StartsWith(what, "REG") THEN [g EXCEPT !.regs = Append(@, el)]
    ELSE IF StartsWith(what, "TRAS") \/ StartsWith(what, "TRANSF")
         THEN [g EXCEPT !.tras = Append(@, el)]
    ELSE IF StartsWith(what, "BIN") \/ StartsWith(what, "USRBIN")
         THEN [g EXCEPT !.bins = Append(@, el)]
    ELSE IF StartsWith(what, "SCO") \/ StartsWith(what, "SCORING")
         THEN [g EXCEPT !.scos = Append(@, el)]
    ELSE ExitVal

\* ------------------------------------------------------------------------
\* Geometry.ret
\* ------------------------------------------------------------------------

Res(e, i) == [e |-> e, i |-> i]

NotFound == Res(NoneVal, -1)

\* the loop "for iEntry,myEntry in enumerate(lst): if match: lFound=True; break"
FindFirst(lst, P(_)) ==
    LET k == FirstIdx(lst, P, 1)
    IN  IF k = 0 THEN NotFound ELSE Res(lst[k], k - 1)

FindByName(lst, v) == FindFirst(lst, LAMBDA e : e.name = v)

RetAllOf(lst) == Res(Names(lst), AllIdx(lst))

\* ret("transf", name) for every name of a list, as the ALL relation
\* branches do after list(set(...)): names in the order `ord`
LinkedAll(g, ord) ==
    Res(ord, [ i \in 1..Len(ord) |-> FindByName(g.tras, ord[i]).i ])

\* the singular relation branches: lFound is set from "myEntry is None"
LinkedOne(g, owner) ==
    IF owner.e = NoneVal THEN ExitVal
    ELSE IF IsLinked(owner.e)
         THEN LET t == FindByName(g.tras, owner.e.tr)
                  lFound == (t.e = NoneVal)
              IN  IF lFound THEN t ELSE NotFound
         ELSE NotFound

ScoAllOf(g, c) ==
    Res(Names(SelectSeq(g.scos, LAMBDA s : s.cls = c)), AllIdx(g.scos))

\* Python's str.replace(old,new) on a text given as a list of characters
RECURSIVE PyReplace(_, _, _)
PyReplace(s, old, new) ==
    IF Len(s) < Len(old) \/ old = << >> THEN s
    ELSE IF SubSeq(s, 1, Len(old)) = old
         THEN new \o PyReplace(SubSeq(s, Len(old) + 1, Len(s)), old, new)
    ELSE <<s[1]>> \o PyReplace(Tail(s), old, new)

\* the words of a zone expression (a list of characters) once "|", "+" and
\* "-" are replaced by blanks: replace(...).strip().split()
RECURSIVE Words(_, _)
Words(s, cur) ==
    IF s = << >> THEN (IF cur = << >> THEN << >> ELSE <<cur>>)
    ELSE IF s[1] \in {" ", "|", "+", "-"}
         THEN (IF cur = << >> THEN << >> ELSE <<cur>>) \o Words(Tail(s), << >>)
    ELSE Words(Tail(s), Append(cur, s[1]))

\* Region.retBodiesInDef
RetBodiesInDef(r) == Dedup(Words(r.def, << >>))

\* ret("BodsInReg",name): the bodies in the definition and the index of each
BodsInReg(g, myEntry) ==
    Res(myEntry, [ i \in 1..Len(myEntry) |-> FindByName(g.bods, myEntry[i]).i ])

\* lFound at the end of ret(myKey,"ALL"): every ALL branch sets it, the one of
\* BODSINREG excepted
FoundAll(k) == ~StartsWith(k, "BODSINREG")

\* the set of the results ret(myKey,myValue) can give (several only where the
\* program iterates over a Python set, whose order is not defined)
RetSet(g, k, v) ==
    IF StartsWith(k, "BODSINREG") THEN
        IF v = "ALL" THEN { NotFound }
        ELSE IF FindByName(g.regs, v).e = NoneVal THEN { ExitVal }
        ELSE { BodsInReg(g, RetBodiesInDef(FindByName(g.regs, v).e)) }
    ELSE IF StartsWith(k, "BOD") THEN
        { IF v = "ALL" THEN RetAllOf(g.bods) ELSE FindByName(g.bods, v) }
    ELSE IF StartsWith(k, "LAT") THEN
        { IF v = "ALL"
          THEN Res(SeqMap(LAMBDA r : r.lat, SelectSeq(g.regs, IsLattice)),
                   SelectIdx(g.regs, IsLattice, 1))
          ELSE FindFirst(g.regs, LAMBDA r : r.lat = v) }
    ELSE IF StartsWith(k, "REG") THEN
        { IF v = "ALL" THEN RetAllOf(g.regs) ELSE FindByName(g.regs, v) }
    ELSE IF StartsWith(k, "TRANSFLINKEDTOBODY") THEN
        IF v = "ALL"
        THEN { LinkedAll(g, o) :
                 o \in Orderings({ b.tr : b \in { x \in Range(g.bods) : IsLinked(x) } }) }
        ELSE { LinkedOne(g, FindByName(g.bods, v)) }
    ELSE IF StartsWith(k, "TRANSFLINKEDTOLAT") THEN
        IF v = "ALL"
        THEN { LinkedAll(g, o) :
                 o \in Orderings({ r.tr : r \in { x \in Range(g.regs) :
                                                   IsLattice(x) /\ IsLinked(x) } }) }
        ELSE { LinkedOne(g, FindFirst(g.regs, LAMBDA r : r.lat = v)) }
    ELSE IF StartsWith(k, "TRANSFLINKEDTOUSRBIN") THEN
        IF v = "ALL"
        THEN { LinkedAll(g, o) :
                 o \in Orderings({ b.tr : b \in { x \in Range(g.bins) : IsLinked(x) } }) }
        ELSE { LinkedOne(g, FindByName(g.bins, v)) }
    ELSE IF StartsWith(k, "TRANSF") THEN
        { IF v = "ALL" THEN RetAllOf(g.tras) ELSE FindByName(g.tras, v) }
    ELSE IF StartsWith(k, "BIN") \/ StartsWith(k, "USRBIN") THEN
        { IF v = "ALL" THEN RetAllOf(g.bins) ELSE FindByName(g.bins, v) }
    ELSE IF StartsWith(k, "SCO") \/ StartsWith(k, "SCORING") THEN
        { IF v = "ALL" THEN RetAllOf(g.scos) ELSE FindByName(g.scos, v) }
    ELSE IF StartsWith(k, "USRYIELD") THEN
        { IF v = "ALL" THEN ScoAllOf(g, "Usryield")
          ELSE FindFirst(g.scos, LAMBDA s : s.name = v /\ s.cls = "Usryield") }
    ELSE IF StartsWith(k, "USRBDX") THEN
        { IF v = "ALL" THEN ScoAllOf(g, "Usrbdx")
          ELSE FindFirst(g.scos, LAMBDA s : s.name = v /\ s.cls = "Usrbdx") }
    ELSE IF StartsWith(k, "USRTRACK") THEN
        { IF v = "ALL" THEN ScoAllOf(g, "Usrtrack")
          ELSE FindFirst(g.scos, LAMBDA s : s.name = v /\ s.cls = "Usrtrack") }
    ELSE IF StartsWith(k, "USRCOLL") THEN
        { IF v = "ALL" THEN ScoAllOf(g, "Usrcoll")
          ELSE FindFirst(g.scos, LAMBDA s : s.name = v /\ s.cls = "Usrcoll") }
    ELSE { ExitVal }

\* ret where the program does not depend on the order of a relation list
Ret(g, k, v) == CHOOSE r \in RetSet(g, k, v) : TRUE

\* ------------------------------------------------------------------------
\* Specification SpecRet: a geometry built by Geometry.add and queried by
\* Geometry.ret
\* ------------------------------------------------------------------------

MaxEnts == 2

BodEls == { Body(n, t) : n \in {"b1", "b2"}, t \in {"", "t1"} }

RegEls == { [Region("r1") EXCEPT !.lat = l, !.tr = t] : l \in {"", "L1"}, t \in {"", "t1"} }

TraEls == { Transformation(0, n) : n \in {"t1", "t2"} }

BinEls == { Usrbin("u1", t) : t \in {"", "t1"} }

ScoEls == { Scoring("s1", c) : c \in {"Usryield", "Usrbdx"} }

\* the spellings of `what` the callers of add use, the collection each names,
\* and the elements added under it
AddWhat == [BODY |-> BodEls, BOD |-> BodEls, REG |-> RegEls, TRANSF |-> TraEls,
            TRAS |-> TraEls, BIN |-> BinEls, SCO |-> ScoEls, MAT |-> BodEls]

WhatKind == [BODY |-> "bods", BOD |-> "bods", REG |-> "regs", TRANSF |-> "tras",
             TRAS |-> "tras", BIN |-> "bins", SCO |-> "scos", MAT |-> "none"]

\* the selectors queried, each with "ALL", names that may have been added and
\* a name that never is
RetArgs ==
    [BOD |-> {"ALL", "b1", "b2", "zz"}, REG |-> {"ALL", "r1", "zz"},
     TRANSF |-> {"ALL", "t1", "t2"}, BIN |-> {"ALL", "u1", "zz"},
     SCO |-> {"ALL", "s1", "zz"}, LAT |-> {"ALL", "L1"},
     TRANSFLINKEDTOBODY |-> {"ALL", "b1", "b2"},
     TRANSFLINKEDTOLAT |-> {"ALL", "L1"},
     TRANSFLINKEDTOUSRBIN |-> {"ALL", "u1"},
     USRYIELD |-> {"ALL", "s1"}, USRBDX |-> {"ALL", "s1"},
     USRTRACK |-> {"ALL"}, USRCOLL |-> {"ALL"}]

KeyKind == [BOD |-> "bods", REG |-> "regs", TRANSF |-> "tras", BIN |-> "bins",
            SCO |-> "scos"]

NEnts(g) == Len(g.bods) + Len(g.regs) + Len(g.tras) + Len(g.bins) + Len(g.scos)

InitRet ==
    /\ geo = EmptyGeo
    /\ pre = EmptyGeo
    /\ op = [name |-> "init"]
    /\ out = NoneVal
    /\ halt = "run"
    /\ hist = << >>
    /\ ps = NoPs

\* newGeom.add(tmpEl, what)
AddEnt ==
    /\ halt = "run"
    /\ NEnts(geo) < MaxEnts
    /\ \E w \in DOMAIN AddWhat : \E el \in AddWhat[w] :
         LET g == Add(geo, el, w)
         IN  /\ op' = [name |-> "add", what |-> w, el |-> el]
             /\ pre' = geo
             /\ out' = NoneVal
             /\ IF g = ExitVal
                THEN halt' = "exit" /\ UNCHANGED <<geo, hist>>
                ELSE /\ geo' = g
                     /\ hist' = Append(hist, [kind |-> WhatKind[w], name |-> el.name])
                     /\ halt' = "run"
    /\ UNCHANGED ps

\* myEntry, iEntry = geo.ret(myKey, myValue)
RetQuery ==
    /\ halt = "run"
    /\ \E k \in DOMAIN RetArgs : \E v \in RetArgs[k] : \E r \in RetSet(geo, k, v) :
         /\ op' = [name |-> "ret", key |-> k, value |-> v]
         /\ pre' = geo
         /\ IF r = ExitVal
            THEN halt' = "exit" /\ out' = NoneVal
            ELSE halt' = "run" /\ out' = r
    /\ UNCHANGED <<geo, hist, ps>>

NextRet == AddEnt \/ RetQuery

SpecRet == InitRet /\ [][NextRet]_vars

\* the names add was called with for the collection a selector names, in
\* call order
AddedNames(k) ==
    SeqMap(LAMBDA h : h.name, SelectSeq(hist, LAMBDA h : h.kind = KeyKind[k]))

\* C2: after any sequence of add calls, ret(kind,"ALL") returns the names of
\* the entities added to that kind, in insertion order, with the indices
\* 0..n-1, and ret(kind,name) for a name never added to that kind returns the
\* not-found sentinel (None,-1), also on an empty collection.
C2_RetAllInInsertionOrder ==
    (op.name = "ret" /\ halt = "run" /\ op.key \in DOMAIN KeyKind) =>
        LET added == AddedNames(op.key)
        IN  IF op.value = "ALL"
            THEN out = Res(added, [ i \in 1..Len(added) |-> i - 1 ])
            ELSE (op.value \notin Range(added)) => (out = NotFound)

\* C2 witness: ret(BOD,"ALL") returned two different body names
C2_Witness ==
    /\ op.name = "ret" /\ op.key = "BOD" /\ op.value = "ALL"
    /\ Len(out.e) = 2 /\ out.e[1] # out.e[2]
    /\ AddedNames("BOD") = out.e

\* the entity a singular relation lookup names: the body, the lattice region
\* or the USRBIN of that name
C3_Owner ==
    CASE op.key = "TRANSFLINKEDTOBODY" -> FindByName(geo.bods, op.value)
      [] op.key = "TRANSFLINKEDTOLAT" -> FindFirst(geo.regs, LAMBDA r : r.lat = op.value)
      [] op.key = "TRANSFLINKEDTOUSRBIN" -> FindByName(geo.bins, op.value)

\* C3: a singular TRANSFLINKEDTOBODY / TRANSFLINKEDTOLAT / TRANSFLINKEDTOUSRBIN
\* lookup returns the linked transformation and its index whenever the named
\* entity exists, is linked and the transformation is in the geometry, and
\* returns the sentinel only when there is no such link or transformation.
C3_LinkedLookupReturnsTransformation ==
    (/\ op.name = "ret" /\ halt = "run" /\ op.value # "ALL"
     /\ op.key \in {"TRANSFLINKEDTOBODY", "TRANSFLINKEDTOLAT", "TRANSFLINKEDTOUSRBIN"}) =>
        LET present == /\ C3_Owner.e # NoneVal
                       /\ IsLinked(C3_Owner.e)
                       /\ \E t \in Range(geo.tras) : t.name = C3_Owner.e.tr
        IN  /\ present => \E i \in 1..Len(geo.tras) :
                             /\ geo.tras[i].name = C3_Owner.e.tr
                             /\ out = Res(geo.tras[i], i - 1)
            /\ (out = NotFound) => ~present

\* the collection that owns the entities a selector names
C25_Owning ==
    CASE op.key = "BOD" -> geo.bods
      [] op.key \in {"REG", "LAT"} -> geo.regs
      [] op.key \in {"TRANSF", "TRANSFLINKEDTOBODY", "TRANSFLINKEDTOLAT",
                     "TRANSFLINKEDTOUSRBIN"} -> geo.tras
      [] op.key = "BIN" -> geo.bins
      [] OTHER -> geo.scos

\* the name under which a selector lists an entity
C25_Name(e) == IF op.key = "LAT" THEN e.lat ELSE e.name

\* the class of the scorings of a scoring-family selector
C25_Family == [USRYIELD |-> "Usryield", USRBDX |-> "Usrbdx",
               USRTRACK |-> "Usrtrack", USRCOLL |-> "Usrcoll"]

\* C25: the two lists that ret(selector,"ALL") returns have the same length,
\* and the k-th index is the place, in the collection the selector is about,
\* of the entity with the k-th name; for the selectors USRYIELD, USRBDX,
\* USRTRACK and USRCOLL both lists cover the scorings of that family, and
\* only them.
C25_AllListsAgree ==
    (op.name = "ret" /\ halt = "run" /\ op.value = "ALL") =>
        /\ Len(out.e) = Len(out.i)
        /\ \A k \in 1..Len(out.i) :
              /\ out.i[k] \in 0..(Len(C25_Owning) - 1)
              /\ k <= Len(out.e)
              /\ C25_Name(C25_Owning[out.i[k] + 1]) = out.e[k]
        /\ (op.key \in DOMAIN C25_Family) =>
              { out.i[k] + 1 : k \in 1..Len(out.i) }
                 = { j \in 1..Len(geo.scos) : geo.scos[j].cls = C25_Family[op.key] }

\* ------------------------------------------------------------------------
\* Input decks.  A line is a record: k is what the line starts with (a card
\* keyword, "*" for a comment, " " for a blank-leading line, "NAME" for any
\* other text), w the fields that follow (all the blank-separated words for
\* " " and "NAME" lines; the body of the card and its SDUM for scoring cards),
\* t the text from column 20 on, as a list of words and blanks.
\* ------------------------------------------------------------------------

Line(k, w, t) == [k |-> k, w |-> w, t |-> t]

Keywords ==
    {"#define", "#if", "#elif", "#else", "#end", "GEOBEGIN", "GEOEND", "END",
     "$start", "ASSIGNMA", "ROT-DEFI", "AUXSCORE", "ROTPRBIN", "USRBIN",
     "USRYIELD", "USRBDX", "USRTRACK", "USRCOLL", "FREE", "FIXED", "LATTICE", "*"}

\* str.split()
Split(l) == IF l.k \in {" ", "NAME"} THEN l.w ELSE <<l.k>> \o l.w

\* the line that a text made of these words is
MkLine(words) ==
    IF words = << >> \/ words[1] = "" THEN Line(" ", SelectSeq(words, LAMBDA x : x # ""), << >>)
    ELSE IF words[1] \in Keywords THEN Line(words[1], Tail(words), << >>)
    ELSE Line("NAME", words, << >>)

\* tmpLine.strip().endswith("&")
EndsWithAmp(l) == l.w # << >> /\ l.w[Len(l.w)] = "&"

\* str.strip() on the text of a title
RECURSIVE Strip(_)
Strip(t) ==
    IF t = << >> THEN t
    ELSE IF t[1] = " " THEN Strip(Tail(t))
    ELSE IF t[Len(t)] = " " THEN Strip(SubSeq(t, 1, Len(t) - 1))
    ELSE t

\* the words float()/int() accept, and the number each gives
IsNumTok(x) == x \in {"1", "2", "5", "7"}

Float(x) == CASE x = "1" -> 1 [] x = "2" -> 2 [] x = "5" -> 5 [] x = "7" -> 7

\* "%4d" % n, stripped
Fmt4d(n) == CASE n = 1 -> "1" [] n = 2 -> "2" [] n = 5 -> "5" [] n = 7 -> "7"

All(s) == \A i \in 1..Len(s) : s[i]

\* range(a,b,s) and the list position (1-based) a Python index stands for
PyRange(a, b, s) == { x \in a..(b - 1) : (x - a) % s = 0 }

PyIdx(n, i) == IF i < 0 THEN n + i + 1 ELSE i + 1

\* ------------------------------------------------------------------------
\* Parsing of single entities
\* ------------------------------------------------------------------------

RECURSIVE RegFromBuf(_, _, _, _)
RegFromBuf(buf, i, reg, lHeadParsed) ==
    IF reg = ExitVal \/ i > Len(buf) THEN reg
    ELSE IF ~lHeadParsed THEN
        IF buf[i].k = "*"
        THEN RegFromBuf(buf, i + 1, [reg EXCEPT !.comment = Append(@, buf[i])], FALSE)
        ELSE LET data == Split(buf[i])
             IN  IF Len(data) < 2 \/ ~IsNumTok(data[2]) THEN ExitVal
                 ELSE RegFromBuf(buf, i + 1,
                          [reg EXCEPT !.name = data[1], !.neigh = Float(data[2]),
                                      !.def = << Line("DEF", SubSeq(data, 3, Len(data)), << >>) >>],
                          TRUE)
    ELSE RegFromBuf(buf, i + 1, [reg EXCEPT !.def = Append(@, buf[i])], TRUE)

\* Region.fromBuf
RegionFromBuf(buf) == RegFromBuf(buf, 1, Region(""), FALSE)

\* Body.fromBuf: the comment lines, then the card "<type> <name> <numbers>"
BodyFromBuf(buf) ==
    LET data == Split(buf[Len(buf)])
    IN  IF Len(data) < 2 THEN ExitVal
        ELSE [Body(data[2], "") EXCEPT
                !.def = <<data[1]>> \o SubSeq(data, 3, Len(data)),
                !.comment = SubSeq(buf, 1, Len(buf) - 1)]

\* RotDefi.fromBuf: the elementary step of a ROT-DEFI card, the ID (-1: not
\* given) and the name of the transformation it belongs to
RotDefiFromBuf(buf) ==
    LET l == buf[Len(buf)]
    IN  IF Len(l.w) < 2 THEN ExitVal
        ELSE [step |-> l.w[2], ID |-> -1, name |-> l.w[1]]

RECURSIVE BinFromBuf(_, _, _)
BinFromBuf(buf, i, bin) ==
    IF bin = ExitVal THEN ExitVal
    ELSE IF i > Len(buf) THEN
        IF Len(bin.def) # 2 \/ bin.name = "" THEN ExitVal ELSE bin
    ELSE LET l == buf[i]
         IN  IF l.k = "*" THEN BinFromBuf(buf, i + 1, [bin EXCEPT !.comment = Append(@, l)])
             ELSE IF l.k = "ROTPRBIN" THEN
                 LET tn == IF l.w = << >> THEN "" ELSE l.w[1]
                     b1 == IF tn # "" THEN [bin EXCEPT !.tr = tn] ELSE bin
                 IN  IF b1.tr = "" THEN ExitVal ELSE BinFromBuf(buf, i + 1, b1)
             ELSE LET d == IF l.w = << >> THEN "" ELSE l.w[1]
                      sdum == IF Len(l.w) < 2 THEN "" ELSE l.w[2]
                  IN  BinFromBuf(buf, i + 1,
                          [bin EXCEPT !.def = Append(@, d),
                                      !.name = IF bin.def = << >> THEN sdum ELSE @])

\* Usrbin.fromBuf
UsrbinFromBuf(buf) == BinFromBuf(buf, 1, Usrbin("", ""))

\* Usryield.fromBuf, Usrbdx.fromBuf, Usrtrack.fromBuf, Usrcoll.fromBuf: the
\* comment lines, then the cards of the detector, named by the SDUM of the
\* first one
ScoringFromBuf(buf, cls) ==
    LET cards == SelectSeq(buf, LAMBDA l : l.k # "*")
        sdum == IF Len(cards[1].w) < 2 THEN "" ELSE cards[1].w[2]
    IN  IF sdum = "" THEN ExitVal
        ELSE [Scoring(sdum, cls) EXCEPT
                !.comment = SelectSeq(buf, LAMBDA l : l.k = "*"),
                !.regs = SeqMap(LAMBDA l : IF l.w = << >> THEN "" ELSE l.w[1], cards)]

\* ------------------------------------------------------------------------
\* Geometry.assignma / AssignMaterial / rotdefi / lattice
\* ------------------------------------------------------------------------

\* "for iEntry in range(iFirst,iLast+1,iStep): self.regs[iEntry].assignMat(myMatName)"
AssignRange(g, myMatName, iFirst, iLast, iStep) ==
    LET idx == { PyIdx(Len(g.regs), x) : x \in PyRange(iFirst, iLast + 1, iStep) }
    IN  IF \E k \in idx : k \notin 1..Len(g.regs) THEN ExitVal
        ELSE [g EXCEPT !.regs = [ k \in 1..Len(g.regs) |->
                 IF k \in idx THEN [g.regs[k] EXCEPT !.mat = myMatName] ELSE g.regs[k] ]]

AssignFrom(g, myMatName, iFirst, hasLast, myLastRegName, iStep) ==
    AssignRange(g, myMatName, iFirst,
                IF hasLast THEN Ret(g, "REG", myLastRegName).i ELSE iFirst, iStep)

AssignMaterial(g, myMatName, myFirstRegName, hasLast, myLastRegName, iStep) ==
    AssignFrom(g, myMatName, Ret(g, "REG", myFirstRegName).i, hasLast, myLastRegName, iStep)

assignma(g, tmpLine) ==
    LET data == Split(tmpLine)
    IN  IF Len(data) < 3 THEN ExitVal
        ELSE IF Len(data) >= 5 /\ ~IsNumTok(data[5]) THEN ExitVal
        ELSE AssignMaterial(g, data[2], data[3], Len(data) >= 4,
                            IF Len(data) >= 4 THEN data[4] ELSE "",
                            IF Len(data) >= 5 THEN Float(data[5]) ELSE 1)

\* "self.tras[iEntry].AddRotDefi(tmpRotDefi)"
AddRotDefiAt(g, iEntry, step) ==
    [g EXCEPT !.tras[PyIdx(Len(g.tras), iEntry)].steps = Append(@, step)]

\* rotdefi once ret("TRANSF",myName) has given iEntry
rotdefiAt(g, rd, iEntry) ==
    IF iEntry = -1
    THEN AddRotDefiAt(Add(g, Transformation(IF rd.ID = -1 THEN Len(g.tras) + 1 ELSE rd.ID,
                                            rd.name), "TRANSF"),
                      iEntry, rd.step)
    ELSE AddRotDefiAt(g, iEntry, rd.step)

rotdefi(g, tmpBuf) ==
    LET rd == RotDefiFromBuf(tmpBuf)
    IN  IF rd = ExitVal THEN ExitVal
        ELSE rotdefiAt(g, rd, Ret(g, "TRANSF", rd.name).i)

\* the material Region.assignMat() gives when called without one
LatticeMat == "VACUUM"

\* lattice once ret("REG",myRegName) has given iEntry
latticeAt(g, data, k) ==
    IF k \notin 1..Len(g.regs) THEN ExitVal
    ELSE [g EXCEPT !.regs[k].lat = data[2], !.regs[k].tr = data[4],
                   !.regs[k].mat = LatticeMat]

lattice(g, tmpLine) ==
    LET data == Split(tmpLine)
    IN  IF Len(data) < 4 THEN ExitVal
        ELSE latticeAt(g, data, PyIdx(Len(g.regs), Ret(g, "REG", data[3]).i))

\* ------------------------------------------------------------------------
\* Geometry.fromInp: the local variables of the call, the pre-processor and
\* the section parser, one input line at a time
\* ------------------------------------------------------------------------

InitPs(iRead) ==
    [on |-> TRUE, iRead |-> iRead, defineFlags |-> << >>, lFree |-> FALSE,
     lReads |-> <<TRUE>>, lElse |-> << >>, lBuffReg |-> (iRead = 3),
     tmpBuf |-> << >>, regBuf |-> << >>]

IsDirective(l) == l.k \in {"#define", "#if", "#elif", "#else", "#end"}

PreProcessor(p, l) ==
    LET flag == l.w # << >> /\ l.w[1] \in Range(p.defineFlags)
        nR == Len(p.lReads)
        nE == Len(p.lElse)
    IN  CASE l.k = "#define" ->
               IF Len(l.w) # 1 THEN ExitVal
               ELSE [p EXCEPT !.defineFlags = IF l.w[1] \in Range(@) THEN @ ELSE Append(@, l.w[1])]
          [] l.k = "#if" ->
               IF l.w = << >> THEN ExitVal
               ELSE [p EXCEPT !.lReads = Append(@, flag), !.lElse = Append(@, flag)]
          [] l.k = "#elif" ->
               IF l.w = << >> \/ nR = 0 \/ nE = 0 THEN ExitVal
               ELSE [p EXCEPT !.lReads[nR] = flag, !.lElse[nE] = @ \/ flag]
          [] l.k = "#else" ->
               IF nR = 0 \/ nE = 0 THEN ExitVal
               ELSE [p EXCEPT !.lReads[nR] = ~p.lElse[nE]]
          [] l.k = "#end" ->
               IF nR = 0 \/ nE = 0 THEN ExitVal
               ELSE [p EXCEPT !.lReads = SubSeq(@, 1, nR - 1), !.lElse = SubSeq(@, 1, nE - 1)]

\* the outcome of a step of the parser: the locals and the geometry, or ExitVal
Sec(p, g) == IF g = ExitVal THEN ExitVal ELSE [p |-> p, g |-> g]

\* AddOrExit adding the parsed entity twice
AddOrExitTwice(g, el, what) ==
    IF el = ExitVal THEN ExitVal ELSE Add(Add(g, el, what), el, what)

AddOrExit(g, el, what) == IF el = ExitVal THEN ExitVal ELSE Add(g, el, what)

Flush(p) == [p EXCEPT !.tmpBuf = << >>]

ScoClass == [USRYIELD |-> "Usryield", USRBDX |-> "Usrbdx",
             USRTRACK |-> "Usrtrack", USRCOLL |-> "Usrcoll"]

\* Outside with GEOBEGIN opening the bodies at once
OutsideNoTitle(p, g, l) ==
    LET buf == Append(p.tmpBuf, l)
    IN  CASE l.k = "GEOBEGIN" -> Sec([p EXCEPT !.iRead = 2], g)
          [] l.k = "ASSIGNMA" -> Sec(Flush(p), assignma(g, l))
          [] l.k = "ROT-DEFI" -> Sec(Flush(p), rotdefi(g, buf))
          [] l.k \in {"AUXSCORE", "ROTPRBIN"} -> Sec([p EXCEPT !.tmpBuf = buf], g)
          [] l.k = "USRBIN" ->
               IF EndsWithAmp(l) THEN Sec(Flush(p), AddOrExit(g, UsrbinFromBuf(buf), "BIN"))
               ELSE Sec([p EXCEPT !.tmpBuf = buf], g)
          [] l.k \in DOMAIN ScoClass ->
               IF EndsWithAmp(l)
               THEN Sec(Flush(p), AddOrExit(g, ScoringFromBuf(buf, ScoClass[l.k]), "SCO"))
               ELSE Sec([p EXCEPT !.tmpBuf = buf], g)
          [] l.k = "*" -> Sec([p EXCEPT !.tmpBuf = buf], g)
          [] l.k = "FREE" -> Sec([p EXCEPT !.lFree = TRUE], g)
          [] l.k = "FIXED" -> Sec([p EXCEPT !.lFree = FALSE], g)
          [] OTHER -> Sec(Flush(p), g)

\* iRead == 0
Outside(p, g, l) ==
    LET buf == Append(p.tmpBuf, l)
    IN  CASE l.k = "GEOBEGIN" -> Sec([p EXCEPT !.iRead = 1], g)
          [] l.k = "ASSIGNMA" -> Sec(Flush(p), assignma(g, l))
          [] l.k = "ROT-DEFI" -> Sec(Flush(p), rotdefi(g, buf))
          [] l.k \in {"AUXSCORE", "ROTPRBIN"} -> Sec([p EXCEPT !.tmpBuf = buf], g)
          [] l.k = "USRBIN" ->
               IF EndsWithAmp(l) THEN Sec(Flush(p), AddOrExit(g, UsrbinFromBuf(buf), "BIN"))
               ELSE Sec([p EXCEPT !.tmpBuf = buf], g)
          [] l.k \in DOMAIN ScoClass ->
               IF EndsWithAmp(l)
               THEN Sec(Flush(p), AddOrExit(g, ScoringFromBuf(buf, ScoClass[l.k]), "SCO"))
               ELSE Sec([p EXCEPT !.tmpBuf = buf], g)
          [] l.k = "*" -> Sec([p EXCEPT !.tmpBuf = buf], g)
          [] l.k = "FREE" -> Sec([p EXCEPT !.lFree = TRUE], g)
          [] l.k = "FIXED" -> Sec([p EXCEPT !.lFree = FALSE], g)
          [] OTHER -> Sec(Flush(p), g)

\* iRead == 1
Title(p, g, l) == Sec([Flush(p) EXCEPT !.iRead = 2], [g EXCEPT !.title = Strip(l.t)])

\* iRead == 2
Bodies(p, g, l) ==
    LET buf == Append(p.tmpBuf, l)
    IN  IF l.k = "END" THEN Sec([Flush(p) EXCEPT !.iRead = 3], g)
        ELSE IF l.k = "$start" THEN ExitVal
        ELSE IF l.k = "*" THEN Sec([p EXCEPT !.tmpBuf = buf], g)
        ELSE Sec(Flush(p), AddOrExit(g, BodyFromBuf(buf), "BODY"))

\* "if (len(regBuf)>0): newGeom.add(Region.fromBuf(regBuf),what="reg")"
AcquireRegion(p, g) ==
    IF p.regBuf # << >> THEN AddOrExit(g, RegionFromBuf(p.regBuf), "REG") ELSE g

\* iRead == 3
Regions(p, g, l) ==
    IF l.k = "END"
    THEN Sec([p EXCEPT !.regBuf = << >>, !.tmpBuf = << >>, !.iRead = 4], AcquireRegion(p, g))
    ELSE IF l.k = "*" THEN Sec([p EXCEPT !.tmpBuf = Append(@, l)], g)
    ELSE IF l.k = " "
         THEN Sec([p EXCEPT !.regBuf = @ \o p.tmpBuf \o <<l>>, !.tmpBuf = << >>], g)
    ELSE Sec([p EXCEPT !.regBuf = Append(p.tmpBuf, l), !.tmpBuf = << >>], AcquireRegion(p, g))

\* iRead == 4
Lattices(p, g, l) ==
    IF l.k = "GEOEND" THEN Sec([Flush(p) EXCEPT !.iRead = 0], g)
    ELSE IF l.k = "LATTICE" THEN Sec(p, lattice(g, l))
    ELSE Sec(p, g)

Section(p, g, l) ==
    CASE p.iRead = 0 -> Outside(p, g, l)
      [] p.iRead = 1 -> Title(p, g, l)
      [] p.iRead = 2 -> Bodies(p, g, l)
      [] p.iRead = 3 -> Regions(p, g, l)
      [] p.iRead = 4 -> Lattices(p, g, l)

\* a step of the loop: the locals and the geometry after it, whether the line
\* was handed to the section parser, whether the call ended in exit(1) / an
\* exception
Turn(r, p, g, sect) ==
    IF r = ExitVal THEN [p |-> p, g |-> g, sect |-> sect, exit |-> TRUE]
    ELSE [p |-> r.p, g |-> r.g, sect |-> sect, exit |-> FALSE]

\* ReadLine with "if (not lReads[-1]): continue"
ReadLineTopOnly(p, g, l) ==
    IF IsDirective(l)
    THEN Turn(Sec(PreProcessor(p, l), IF PreProcessor(p, l) = ExitVal THEN ExitVal ELSE g),
              p, g, FALSE)
    ELSE IF p.lReads # << >> /\ ~p.lReads[Len(p.lReads)] THEN Turn(Sec(p, g), p, g, FALSE)
    ELSE Turn(Section(p, g, l), p, g, TRUE)

\* one turn of "for tmpLine in ff.readlines()"
ReadLine(p, g, l) ==
    IF IsDirective(l)
    THEN Turn(Sec(PreProcessor(p, l), IF PreProcessor(p, l) = ExitVal THEN ExitVal ELSE g),
              p, g, FALSE)
    ELSE IF ~All(p.lReads) THEN Turn(Sec(p, g), p, g, FALSE)
    ELSE Turn(Section(p, g, l), p, g, TRUE)

\* what follows the loop
EndOfInput(p, g) ==
    IF p.lBuffReg /\ p.iRead = 3 /\ p.regBuf # << >>
    THEN Sec([p EXCEPT !.regBuf = << >>, !.tmpBuf = << >>, !.iRead = 0], AcquireRegion(p, g))
    ELSE Sec(p, g)

RECURSIVE ReadLines(_, _, _, _)
ReadLines(deck, i, p, g) ==
    IF i > Len(deck) THEN EndOfInput(p, g)
    ELSE LET r == ReadLine(p, g, deck[i])
         IN  IF r.exit THEN ExitVal ELSE ReadLines(deck, i + 1, r.p, r.g)

\* Geometry.fromInp on the lines of a file: the geometry, or ExitVal
fromInp(deck, iRead, newGeom) ==
    LET r == ReadLines(deck, 1, InitPs(iRead), newGeom)
    IN  IF r = ExitVal THEN ExitVal ELSE r.g

\* ------------------------------------------------------------------------
\* Specification SpecParse: Geometry.fromInp reading a file line by line
\* ------------------------------------------------------------------------

MaxLines == 5

NoText == << >>

\* the lines a file is made of
PreLines ==
    { Line("#define", <<"A">>, NoText), Line("#if", <<"A">>, NoText),
      Line("#if", <<"B">>, NoText), Line("#elif", <<"A">>, NoText),
      Line("#else", << >>, NoText), Line("#end", << >>, NoText) }

CardLines ==
    { Line("GEOBEGIN", <<"COMBNAME">>, NoText), Line("GEOEND", << >>, NoText),
      Line("END", << >>, NoText), Line("*", << >>, NoText),
      Line(" ", <<"0", "0">>, <<"T">>),
      Line("NAME", <<"RPP", "b1">>, NoText),
      Line("NAME", <<"r1", "5", "+b1">>, NoText),
      Line(" ", <<"|", "+b1">>, NoText),
      Line("LATTICE", <<"L1", "r1", "t1">>, NoText),
      Line("ASSIGNMA", <<"IRON", "r1">>, NoText),
      Line("ROT-DEFI", <<"t1", "s1">>, NoText),
      Line("ROTPRBIN", <<"t1", "u1">>, NoText),
      Line("USRBIN", <<"d1", "u1">>, NoText), Line("USRBIN", <<"d2", "&">>, NoText),
      Line("USRBDX", <<"r1", "x1">>, NoText), Line("USRBDX", <<"r1", "&">>, NoText),
      Line("$start", <<"t1">>, NoText), Line("FREE", << >>, NoText) }

InitParse ==
    /\ geo = EmptyGeo
    /\ pre = EmptyGeo
    /\ op = [name |-> "init"]
    /\ out = NoneVal
    /\ halt = "run"
    /\ hist = << >>
    /\ \E iRead \in {0, 3} : ps = [InitPs(iRead) EXCEPT !.on = TRUE] @@ [n |-> 0]

\* the loop of fromInp reads the next line of the file
NextLine ==
    /\ halt = "run" /\ ps.on /\ ps.n < MaxLines
    /\ \E l \in PreLines \cup CardLines :
         \E r \in {ReadLine(ps, geo, l)} :
             /\ op' = [name |-> "line", line |-> l, handed |-> r.sect]
             /\ pre' = geo
             /\ geo' = r.g
             /\ ps' = [r.p EXCEPT !.n = @ + 1]
             /\ halt' = IF r.exit THEN "exit" ELSE "run"
    /\ UNCHANGED <<out, hist>>

\* the file ends: the code after the loop, and fromInp returns
EndFile ==
    /\ halt = "run" /\ ps.on
    /\ \E r \in {EndOfInput(ps, geo)} :
           /\ op' = [name |-> "eof"]
           /\ pre' = geo
           /\ IF r = ExitVal
              THEN halt' = "exit" /\ UNCHANGED <<geo, ps, out>>
              ELSE /\ halt' = "run"
                   /\ geo' = r.g
                   /\ ps' = [r.p EXCEPT !.on = FALSE]
                   /\ out' = r.g
    /\ UNCHANGED hist

NextParse == NextLine \/ EndFile

SpecParse == InitParse /\ [][NextParse]_vars

\* C9: while fromInp consumes lines, the section state changes only along
\* 0 -> 1 on a GEOBEGIN line, 1 -> 2 on the very next active line (the title),
\* 2 -> 3 on an END line, 3 -> 4 on an END line, 4 -> 0 on a GEOEND line, and
\* only on a line handed to the section parser; bodies are added only in state
\* 2, regions only in state 3 (or on leaving it), lattices assigned only in
\* state 4.
C9_Step ==
    /\ (op'.name = "line" /\ halt' = "run") =>
         /\ (ps'.iRead # ps.iRead) =>
              /\ op'.handed
              /\ \/ ps.iRead = 0 /\ ps'.iRead = 1 /\ op'.line.k = "GEOBEGIN"
                 \/ ps.iRead = 1 /\ ps'.iRead = 2
                 \/ ps.iRead = 2 /\ ps'.iRead = 3 /\ op'.line.k = "END"
                 \/ ps.iRead = 3 /\ ps'.iRead = 4 /\ op'.line.k = "END"
                 \/ ps.iRead = 4 /\ ps'.iRead = 0 /\ op'.line.k = "GEOEND"
         /\ (ps.iRead = 1 /\ op'.handed) =>
              (ps'.iRead = 2 /\ geo'.title = Strip(op'.line.t))
    /\ (op'.name \in {"line", "eof"}) =>
         /\ (Len(geo'.bods) # Len(geo.bods)) => (ps.iRead = 2)
         /\ (Len(geo'.regs) # Len(geo.regs)) => (ps.iRead = 3)
         /\ (\E k \in 1..Len(geo.regs) : geo'.regs[k].lat # geo.regs[k].lat) => (ps.iRead = 4)

C9_SectionCycle == [][C9_Step]_vars

\* C9 witness: a GEOEND line has closed the cycle back to state 0, after a
\* region was acquired in state 3 and made a lattice in state 4
C9_Witness ==
    /\ op.name = "line" /\ op.line.k = "GEOEND" /\ op.handed /\ halt = "run"
    /\ ps.iRead = 0
    /\ \E k \in 1..Len(geo.regs) : geo.regs[k].lat = "L1"

\* C10: a line that is no directive is handed to the section parser if and
\* only if every entry of the visibility stack lReads is true (so never inside
\* an inactive outer block, whatever the inner directives evaluate to); a line
\* not handed changes nothing; #if pushes one entry, #elif and #else touch the
\* top entry only, and #end pops one entry, restoring the enclosing level.
C10_Step ==
    (op'.name = "line") =>
        LET l == op'.line
            n == Len(ps.lReads)
        IN  /\ ~IsDirective(l) =>
                 /\ op'.handed <=> (\A i \in 1..n : ps.lReads[i])
                 /\ ~op'.handed => (geo' = geo /\ ps' = [ps EXCEPT !.n = @ + 1])
                 /\ ps'.lReads = ps.lReads
            /\ IsDirective(l) => ~op'.handed /\ geo' = geo
            /\ (l.k = "#if" /\ halt' = "run") =>
                 (Len(ps'.lReads) = n + 1 /\ SubSeq(ps'.lReads, 1, n) = ps.lReads)
            /\ (l.k \in {"#elif", "#else", "#define"} /\ halt' = "run") =>
                 (Len(ps'.lReads) = n /\ SubSeq(ps'.lReads, 1, n - 1) = SubSeq(ps.lReads, 1, n - 1))
            /\ (l.k = "#end" /\ halt' = "run") =>
                 (ps'.lReads = SubSeq(ps.lReads, 1, n - 1))

C10_Visibility == [][C10_Step]_vars

\* C10 witness: a card line was skipped inside an inactive outer block whose
\* inner block is active
C10_Witness ==
    /\ op.name = "line" /\ ~IsDirective(op.line) /\ ~op.handed
    /\ Len(ps.lReads) = 3
    /\ ~ps.lReads[2] /\ ps.lReads[3]

\* the cards of a scoring detector and the lines that go with them
ScoCards == {"USRBIN"} \cup DOMAIN ScoClass

Companions == {"AUXSCORE", "ROTPRBIN"}

\* a line of a scoring card, or one of its companions, is handed to the
\* parser outside GEOBEGIN-GEOEND
C11_Case ==
    /\ op'.name = "line" /\ op'.handed /\ ps.iRead = 0
    /\ op'.line.k \in ScoCards \cup Companions

\* the line is appended to the buffer and the geometry is left alone
C11_Accumulated ==
    halt' = "run" /\ geo' = geo /\ ps'.tmpBuf = Append(ps.tmpBuf, op'.line)

\* the buffer, this line included, has become exactly one more USRBIN (for a
\* USRBIN card) or one more region-based scoring (for the other cards), and
\* the buffer is empty again
C11_Parsed ==
    /\ halt' = "run"
    /\ ps'.tmpBuf = << >>
    /\ geo'.bods = geo.bods /\ geo'.regs = geo.regs /\ geo'.tras = geo.tras
    /\ IF op'.line.k = "USRBIN"
       THEN /\ geo'.scos = geo.scos
            /\ geo'.bins = Append(geo.bins, UsrbinFromBuf(Append(ps.tmpBuf, op'.line)))
       ELSE /\ geo'.bins = geo.bins
            /\ geo'.scos = Append(geo.scos,
                   ScoringFromBuf(Append(ps.tmpBuf, op'.line), ScoClass[op'.line.k]))

\* C11 as stated: outside the bracketed section the lines of a scoring card
\* and its companion lines are accumulated while they carry the trailing
\* marker "&", and the buffer is parsed into exactly one scoring entity once a
\* line of that card without the marker is read.
C11_ParsedWhenMarkerAbsent ==
    [][ C11_Case =>
          IF op'.line.k \in ScoCards /\ ~EndsWithAmp(op'.line)
          THEN C11_Parsed ELSE C11_Accumulated ]_vars

\* C11 (amended): outside the bracketed section the lines of a scoring card
\* and its companion lines are accumulated while they do not carry the
\* trailing marker "&"; once a line of that card with the marker is read,
\* the buffer is parsed: exactly one scoring entity is added and the buffer is
\* emptied, or the parse halts with a fatal error and adds nothing.
C11_ParsedWhenMarkerPresent ==
    [][ C11_Case =>
          IF op'.line.k \in ScoCards /\ EndsWithAmp(op'.line)
          THEN C11_Parsed \/ (halt' = "exit" /\ geo' = geo)
          ELSE C11_Accumulated ]_vars

\* C11 witness: a ROTPRBIN line and a first USRBIN line were accumulated, and
\* the USRBIN line ending with "&" made one USRBIN out of the three
C11_Witness ==
    /\ op.name = "line" /\ op.handed /\ op.line.k = "USRBIN" /\ EndsWithAmp(op.line)
    /\ halt = "run" /\ ps.tmpBuf = << >>
    /\ Len(geo.bins) = Len(pre.bins) + 1
    /\ geo.bins[Len(geo.bins)].tr = "t1"
    /\ geo.bins[Len(geo.bins)].def = <<"d1", "d2">>

\* a scoring card has been started and no line of it with the marker has
\* been read yet
Unterminated(buf) == \E i \in 1..Len(buf) : buf[i].k \in ScoCards

\* C12: a multi-line scoring card that was started but is still unterminated
\* when the section ends (a GEOBEGIN line is read, or the input ends) makes
\* fromInp halt with a fatal error; no geometry is returned without the card.
C12_UnterminatedCardIsFatal ==
    [][ /\ (ps.on /\ ps.iRead = 0 /\ Unterminated(ps.tmpBuf) /\ op'.name = "eof")
             => halt' = "exit"
        /\ (ps.iRead = 0 /\ Unterminated(ps.tmpBuf) /\ op'.name = "line" /\ op'.handed
              /\ op'.line.k = "GEOBEGIN")
             => halt' = "exit" ]_vars

\* the region started and not yet added, as it will be added (none, one)
C22_Pending(p) == IF p.regBuf = << >> THEN << >> ELSE << RegionFromBuf(p.regBuf) >>

\* the line that started the region kept in regBuf is no blank-leading line
C22_Started(p) ==
    \A i \in 1..Len(p.regBuf) :
        (\A j \in 1..(i - 1) : p.regBuf[j].k = "*") => p.regBuf[i].k # " "

C22_Step ==
    /\ (op'.name = "line" /\ op'.handed /\ ps.iRead = 3 /\ halt' = "run") =>
         CASE op'.line.k = "*" ->
                geo'.regs = geo.regs /\ ps'.regBuf = ps.regBuf
           [] op'.line.k = " " ->
                /\ ps.regBuf # << >>
                /\ ps'.regBuf = ps.regBuf \o ps.tmpBuf \o << op'.line >>
                /\ geo'.regs = geo.regs
           [] op'.line.k = "END" ->
                /\ geo'.regs = geo.regs \o C22_Pending(ps)
                /\ ps'.regBuf = << >>
           [] OTHER ->
                /\ geo'.regs = geo.regs \o C22_Pending(ps)
                /\ ps'.regBuf = ps.tmpBuf \o << op'.line >>
    /\ (op'.name = "line" /\ halt' = "run") => C22_Started(ps')
    /\ (op'.name = "eof" /\ halt' = "run") =>
         /\ ps.iRead = 3 => geo'.regs = geo.regs \o C22_Pending(ps)
         /\ ps'.regBuf = << >>

\* C22: in the REGIONS state every line that is no comment and does not
\* start with a blank starts a new region, and every blank-leading line
\* extends the region started last; a region started is added to the
\* geometry exactly once, after those started before it: when the next one
\* starts, when the END line is read, or when the input ends; so as many
\* regions are added as there are lines that start one.
C22_RegionsAddedOnce == [][C22_Step]_vars

\* C23: within one block #if / #elif / #else / #end at most one branch is
\* active: once the condition of a branch of the block has matched (lElse
\* keeps it), the branch that a later #elif or #else of the block opens is
\* not active, even if the #elif names a defined flag.
C23_OneBranchActive ==
    [][ ( /\ op'.name = "line" /\ halt' = "run"
          /\ op'.line.k \in {"#elif", "#else"}
          /\ ps.lElse # << >> /\ ps.lElse[Len(ps.lElse)] )
        => ~ps'.lReads[Len(ps'.lReads)] ]_vars

\* C24: a #define read while a conditional block is not active changes
\* nothing: its name is not added to the flags, and with a value it does not
\* stop the parse.
C24_DefineOnlyWhenActive ==
    [][ (op'.name = "line" /\ op'.line.k = "#define" /\ ~All(ps.lReads))
        => (halt' = "run" /\ ps'.defineFlags = ps.defineFlags) ]_vars

\* ------------------------------------------------------------------------
\* Geometry.echo(what="all") into a single file
\* ------------------------------------------------------------------------

RECURSIVE Concat(_)
Concat(ss) == IF ss = << >> THEN << >> ELSE ss[1] \o Concat(Tail(ss))

\* ff.write("* \n")
Sep == Line("*", << >>, NoText)

\* Body.echo: the comment, the $start_transform directive around a linked
\* body, the card
BodyEcho(b) ==
    b.comment
    \o (IF IsLinked(b) THEN << Line("$start", <<b.tr>>, NoText) >> ELSE << >>)
    \o << MkLine(<<b.def[1], b.name>> \o Tail(b.def)) >>
    \o (IF IsLinked(b) THEN << Line("NAME", <<"$end_transform">>, NoText) >> ELSE << >>)

\* Region.echo(): "%-8s   %4d %s" % (name, neigh, definition)
RegionEcho(r) ==
    r.comment
    \o << MkLine(<<r.name, Fmt4d(r.neigh)>> \o (IF r.def = << >> THEN << >> ELSE r.def[1].w)) >>
    \o (IF r.def = << >> THEN << >> ELSE Tail(r.def))

\* Region.echo(lMat=True): "ASSIGNMA  %10s%10s" % (material, name)
RegionEchoMat(r) == r.comment \o << Line("ASSIGNMA", <<r.mat, r.name>>, NoText) >>

\* Region.echo(lLat=True): the LATTICE card
RegionEchoLat(r) == << Line("LATTICE", <<r.lat, r.name, r.tr>>, NoText) >>

\* Transformation.echo: one ROT-DEFI card per step
TransformationEcho(t) ==
    t.comment \o [ i \in 1..Len(t.steps) |-> Line("ROT-DEFI", <<t.name, t.steps[i]>>, NoText) ]

\* Usrbin.echo
UsrbinEcho(b) ==
    LET sdum == <<b.name, "&">>
        n == IF Len(b.def) < 2 THEN Len(b.def) ELSE 2
    IN  b.comment
        \o (IF b.tr # "" THEN << Line("ROTPRBIN", <<b.tr, b.name>>, NoText) >> ELSE << >>)
        \o [ i \in 1..n |-> Line("USRBIN", <<b.def[i], sdum[i]>>, NoText) ]

\* the card of each class of region-based scoring
ScoCard == [Usryield |-> "USRYIELD", Usrbdx |-> "USRBDX",
            Usrtrack |-> "USRTRACK", Usrcoll |-> "USRCOLL"]

\* Usryield.echo, Usrbdx.echo, Usrtrack.echo, Usrcoll.echo
ScoringEcho(x) ==
    x.comment
    \o [ i \in 1..Len(x.regs) |->
           Line(ScoCard[x.cls], <<x.regs[i], IF i = 1 THEN x.name ELSE "&">>, NoText) ]

EchoBodies(g) == <<Sep>> \o Concat(SeqMap(BodyEcho, g.bods)) \o <<Sep>>

EchoRegions(g) == <<Sep>> \o Concat(SeqMap(RegionEcho, g.regs)) \o <<Sep>>

EchoLattices(g) ==
    IF Len(Ret(g, "LAT", "ALL").e) > 0
    THEN <<Sep>> \o Concat(SeqMap(RegionEchoLat, SelectSeq(g.regs, IsLattice))) \o <<Sep>>
    ELSE << >>

EchoTransf(g) ==
    <<Sep, Line("FREE", << >>, NoText)>> \o Concat(SeqMap(TransformationEcho, g.tras))
    \o <<Line("FIXED", << >>, NoText), Sep>>

EchoMaterials(g) == <<Sep>> \o Concat(SeqMap(RegionEchoMat, g.regs)) \o <<Sep>>

EchoBins(g) == <<Sep>> \o Concat(SeqMap(UsrbinEcho, g.bins)) \o <<Sep>>

EchoScos(g) == <<Sep>> \o Concat(SeqMap(ScoringEcho, g.scos)) \o <<Sep>>

\* echo(what="all") that leaves the LATTICE cards out
EchoNoLattices(g) ==
    << Line("GEOBEGIN", <<"COMBNAME">>, NoText), Line(" ", <<"0", "0">>, g.title) >>
    \o EchoBodies(g) \o << Line("END", << >>, NoText) >>
    \o EchoRegions(g) \o << Line("END", << >>, NoText) >>
    \o << Line("GEOEND", << >>, NoText) >>
    \o (IF Len(g.tras) > 0 THEN EchoTransf(g) ELSE << >>)
    \o EchoMaterials(g)
    \o (IF Len(g.bins) > 0 THEN EchoBins(g) ELSE << >>)
    \o (IF Len(g.scos) > 0 THEN EchoScos(g) ELSE << >>)

\* echo(oFileName, lSplit=False, what="all"): the lines of the file written
Echo(g) ==
    << Line("GEOBEGIN", <<"COMBNAME">>, NoText), Line(" ", <<"0", "0">>, g.title) >>
    \o EchoBodies(g) \o << Line("END", << >>, NoText) >>
    \o EchoRegions(g) \o << Line("END", << >>, NoText) >>
    \o EchoLattices(g) \o << Line("GEOEND", << >>, NoText) >>
    \o (IF Len(g.tras) > 0 THEN EchoTransf(g) ELSE << >>)
    \o EchoMaterials(g)
    \o (IF Len(g.bins) > 0 THEN EchoBins(g) ELSE << >>)
    \o (IF Len(g.scos) > 0 THEN EchoScos(g) ELSE << >>)

\* ------------------------------------------------------------------------
\* Specification SpecRound: a deck is parsed by fromInp, written by echo and
\* parsed again.  The decks are FLUKA decks: a region name is used once.
\* ------------------------------------------------------------------------

MaxPerKind == 2

MaxParses == 2

BodyCard(n) == Line("NAME", <<"RPP", n, "0", "1">>, NoText)

RegionCard(n) == Line("NAME", <<n, "5", "+b1">>, NoText)

ZoneCard == Line(" ", <<"|", "+b2">>, NoText)

Comm == Line("*", <<"note">>, NoText)

\* the lists without repetitions of at most n elements of S
InjSeqs(S, n) ==
    { q \in UNION { [1..k -> S] : k \in 0..n } :
        \A i, j \in 1..Len(q) : i # j => q[i] # q[j] }

Titles == { << >>, <<" ", "T", " ">> }

BodyParts ==
    { Concat([ i \in 1..Len(ns) |->
                 IF i = 1 THEN <<Comm, BodyCard(ns[i])>> ELSE <<BodyCard(ns[i])>> ]) :
        ns \in InjSeqs({"b1", "b2"}, MaxPerKind) }
    \cup { << Line("#if", <<"B">>, NoText), BodyCard("b2"), Line("#end", << >>, NoText),
              BodyCard("b1") >> }

RegionParts ==
    { Concat([ i \in 1..Len(ns) |->
                 IF i = 1 THEN <<Comm, RegionCard(ns[i]), Comm, ZoneCard>>
                 ELSE <<RegionCard(ns[i])>> ]) :
        ns \in InjSeqs({"r1", "r2"}, MaxPerKind) }

LatticeParts ==
    { << >>, << Line("LATTICE", <<"L1", "r1", "t1">>, NoText) >>,
      << Line("LATTICE", <<"L1", "r9", "t2">>, NoText) >> }

TransfParts ==
    { << >>,
      << Line("ROT-DEFI", <<"t1", "s1">>, NoText), Line("ROT-DEFI", <<"t2", "s1">>, NoText),
         Line("ROT-DEFI", <<"t1", "s2">>, NoText) >> }

AssignParts ==
    { << >>, << Line("ASSIGNMA", <<"IRON", "r1">>, NoText) >>,
      << Line("ASSIGNMA", <<"IRON", "r1">>, NoText), Line("ASSIGNMA", <<"LEAD", "r9">>, NoText) >>,
      << Line("ASSIGNMA", <<"IRON", "r1", "r2">>, NoText) >> }

UsrbinCards(n) == << Line("USRBIN", <<"d1", n>>, NoText), Line("USRBIN", <<"d2", "&">>, NoText) >>

BinParts ==
    { << >>, UsrbinCards("u1"),
      << Line("ROTPRBIN", <<"t1", "u1">>, NoText) >> \o UsrbinCards("u1"),
      << Comm, Line("ROTPRBIN", <<"t1", "u1">>, NoText) >> \o UsrbinCards("u1")
         \o UsrbinCards("u2") }

ScoParts ==
    { << >>,
      << Line("USRBDX", <<"r1", "x1">>, NoText), Line("USRBDX", <<"r2", "&">>, NoText) >> }

\* the deck made of these parts
Deck(t, b, r, l, x, a, u, c) ==
    << Line("GEOBEGIN", <<"COMBNAME">>, NoText), Line(" ", <<"0", "0">>, t) >>
    \o b \o << Line("END", << >>, NoText) >> \o r \o << Line("END", << >>, NoText) >>
    \o l \o << Line("GEOEND", << >>, NoText) >> \o x \o a \o u \o c

\* the richest choice of title, bodies, transformations, USRBINs and scorings
FullRest ==
    [t |-> <<" ", "T", " ">>,
     b |-> <<Comm, BodyCard("b1"), BodyCard("b2")>>,
     x |-> << Line("ROT-DEFI", <<"t1", "s1">>, NoText), Line("ROT-DEFI", <<"t2", "s1">>, NoText),
              Line("ROT-DEFI", <<"t1", "s2">>, NoText) >>,
     u |-> << Comm, Line("ROTPRBIN", <<"t1", "u1">>, NoText) >> \o UsrbinCards("u1")
              \o UsrbinCards("u2"),
     c |-> << Line("USRBDX", <<"r1", "x1">>, NoText), Line("USRBDX", <<"r2", "&">>, NoText) >>]

\* the richest choice, and every choice that differs from it in one part
RestParts ==
    { q \in [t : Titles, b : BodyParts, x : TransfParts, u : BinParts, c : ScoParts] :
        Cardinality({ f \in {"t", "b", "x", "u", "c"} : q[f] # FullRest[f] }) <= 1 }

InitRound ==
    /\ geo = EmptyGeo
    /\ pre = EmptyGeo
    /\ op = [name |-> "init"]
    /\ out = NoneVal
    /\ halt = "run"
    /\ hist = << >>
    /\ \E r \in RegionParts, l \in LatticeParts, a \in AssignParts, q \in RestParts :
         ps = [on |-> FALSE, file |-> Deck(q.t, q.b, r, l, q.x, a, q.u, q.c)]

\* myGeo = Geometry.fromInp(file)
ParseFile ==
    /\ halt = "run" /\ op.name \in {"init", "echo"}
    /\ \E g \in {fromInp(ps.file, 0, EmptyGeo)} :
           /\ op' = [name |-> "fromInp"]
           /\ pre' = geo
           /\ IF g = ExitVal
              THEN halt' = "exit" /\ UNCHANGED <<geo, out, hist>>
              ELSE halt' = "run" /\ geo' = g /\ out' = g /\ hist' = Append(hist, g)
    /\ UNCHANGED ps

\* myGeo.echo(file, what="all")
EchoFile ==
    /\ halt = "run" /\ op.name = "fromInp" /\ Len(hist) < MaxParses
    /\ op' = [name |-> "echo"]
    /\ ps' = [ps EXCEPT !.file = Echo(geo)]
    /\ pre' = geo
    /\ out' = NoneVal
    /\ UNCHANGED <<geo, halt, hist>>

NextRound == ParseFile \/ EchoFile

SpecRound == InitRound /\ [][NextRound]_vars

\* what the round trip is to keep of a geometry
Kept(g) ==
    [title |-> g.title, bods |-> Names(g.bods), regs |-> Names(g.regs),
     tras |-> Names(g.tras), bins |-> Names(g.bins), scos |-> Names(g.scos),
     mats |-> SeqMap(LAMBDA r : r.mat, g.regs), lats |-> SeqMap(LAMBDA r : r.lat, g.regs),
     links |-> SeqMap(LAMBDA e : e.tr, g.bods \o g.regs \o g.bins)]

DanglingLink(g) ==
    \/ \E b \in Range(g.bods) : IsLinked(b) /\ b.tr \notin Range(Names(g.tras))
    \/ \E r \in Range(g.regs) :
         IsLattice(r) /\ IsLinked(r) /\ r.tr \notin Range(Names(g.tras))
    \/ \E u \in Range(g.bins) : IsLinked(u) /\ u.tr \notin Range(Names(g.tras))

\* C13: dangling transform links are fatal: echo (and MergeGeos) halt with an
\* error whenever a body, a lattice region or a USRBIN of the geometry names
\* a transformation that is not in the list of transformations, so that echo
\* never completes on a geometry with a dangling link.
C13_DanglingLinkIsFatal == (op.name = "echo") => ~DanglingLink(geo)

\* ------------------------------------------------------------------------
\* Geometry.rename.  Names and region definitions are lists of characters
\* here, since Region.BodyNameReplaceInDef works on the text of the
\* definition.  Comments (lNotify) are not modelled.
\* ------------------------------------------------------------------------

DigitChar(d) ==
    CASE d = 0 -> "0" [] d = 1 -> "1" [] d = 2 -> "2" [] d = 3 -> "3"
      [] d = 4 -> "4" [] d = 5 -> "5" [] d = 6 -> "6" [] d = 7 -> "7"
      [] d = 8 -> "8" [] OTHER -> "9"

\* "%0<nDigits>d" % i
RECURSIVE ZeroPad(_, _)
ZeroPad(i, nDigits) ==
    IF nDigits <= 1 /\ i < 10 THEN <<DigitChar(i)>>
    ELSE Append(ZeroPad(i \div 10, nDigits - 1), DigitChar(i % 10))

\* nNameFmt % i, with nName,nNameFmt=TailNameInt(newName,nDigits,addChar):
\* the prefix, the separator and the index on nDigits digits (prefixes short
\* enough not to be cut)
TailNameInt(newName, nDigits, addChar, i) ==
    newName \o addChar \o ZeroPad(i, nDigits)

NoExceptions == [bods |-> {}, regs |-> {}, tras |-> {}, bins |-> {}, scos |-> {}]

\* the entities of a list that rename() gives a new name to (0-based)
Renamed(lst, exc) == SelectIdx(lst, LAMBDA e : e.name \notin exc, 1)

OldNames(lst, exc) ==
    [ j \in 1..Len(Renamed(lst, exc)) |-> lst[Renamed(lst, exc)[j] + 1].name ]

NewNames(lst, exc, newName, nDigits, addChar) ==
    [ j \in 1..Len(Renamed(lst, exc)) |->
        TailNameInt(newName, nDigits, addChar, Renamed(lst, exc)[j] + 1) ]

\* Region.BodyNameReplaceInDef on the text of the definition
RECURSIVE BodyNameReplaceInDef(_, _, _)
BodyNameReplaceInDef(def, oldNames, newNames) ==
    IF oldNames = << >> \/ newNames = << >> THEN def
    ELSE BodyNameReplaceInDef(PyReplace(def, oldNames[1], newNames[1]),
                              Tail(oldNames), Tail(newNames))

\* one call of regNameReplaceInDef(oName,nName) per renamed region, in order
RECURSIVE RegNameReplaceInDef(_, _, _)
RegNameReplaceInDef(regs, oldNames, newNames) ==
    IF oldNames = << >> THEN regs
    ELSE RegNameReplaceInDef(
             [ i \in 1..Len(regs) |->
                 IF regs[i] = oldNames[1] THEN newNames[1] ELSE regs[i] ],
             Tail(oldNames), Tail(newNames))

\* the new name of the transformation an entity is linked to
NewLink(e, oldTras, newTras) == newTras[FirstIdx(oldTras, LAMBDA n : n = e.tr, 1)]

\* the entity once its link follows the renaming of the transformations
Relink(e, lLinked, oldTras, newTras) ==
    IF lLinked /\ e.tr \in Range(oldTras)
    THEN [e EXCEPT !.tr = NewLink(e, oldTras, newTras)] ELSE e

\* rename() once the lists of the old and of the new names are built
RenameWith(g, exc, newName, nDigits, addChar, oldBods, newBods, oldRegs, newRegs, oldTras, newTras) ==
    IF \/ \E b \in Range(g.bins) : IsLinked(b) /\ b.tr \notin Range(oldTras)
       \/ \E b \in Range(g.bods) : IsLinked(b) /\ b.tr \notin Range(oldTras)
       \/ \E r \in Range(g.regs) : IsLattice(r) /\ r.tr \notin Range(oldTras)
    THEN ExitVal
    ELSE [g EXCEPT
        !.bods = [ i \in 1..Len(g.bods) |->
            Relink(IF g.bods[i].name \in exc.bods THEN g.bods[i]
                   ELSE [g.bods[i] EXCEPT
                            !.name = TailNameInt(newName, nDigits, addChar, i)],
                   IsLinked(g.bods[i]), oldTras, newTras) ],
        !.regs = [ i \in 1..Len(g.regs) |->
            Relink(IF g.regs[i].name \in exc.regs THEN g.regs[i]
                   ELSE [g.regs[i] EXCEPT
                            !.name = TailNameInt(newName, nDigits, addChar, i),
                            !.lat = IF IsLattice(g.regs[i])
                                    THEN TailNameInt(newName, nDigits, addChar, i)
                                    ELSE @,
                            !.def = BodyNameReplaceInDef(@, oldBods, newBods)],
                   IsLattice(g.regs[i]), oldTras, newTras) ],
        !.tras = [ i \in 1..Len(g.tras) |->
            IF g.tras[i].name \in exc.tras THEN g.tras[i]
            ELSE [g.tras[i] EXCEPT
                     !.name = TailNameInt(newName, nDigits, addChar, i)] ],
        !.bins = [ i \in 1..Len(g.bins) |->
            Relink(IF g.bins[i].name \in exc.bins THEN g.bins[i]
                   ELSE [g.bins[i] EXCEPT
                            !.name = TailNameInt(newName, nDigits + 1, addChar, i)],
                   IsLinked(g.bins[i]), oldTras, newTras) ],
        !.scos = [ i \in 1..Len(g.scos) |->
            [g.scos[i] EXCEPT
                !.regs = RegNameReplaceInDef(@, oldRegs, newRegs),
                !.name = IF g.scos[i].name \in exc.scos THEN @
                         ELSE TailNameInt(newName, nDigits + 1, addChar, i)] ] ]

\* Geometry.rename(newName,nDigits=nDigits,addChar=addChar,exceptions=exc):
\* the renamed geometry, or ExitVal where the code calls exit(1)
rename(g, newName, nDigits, addChar, exc) ==
    RenameWith(g, exc, newName, nDigits, addChar,
               OldNames(g.bods, exc.bods),
               NewNames(g.bods, exc.bods, newName, nDigits, addChar),
               OldNames(g.regs, exc.regs),
               NewNames(g.regs, exc.regs, newName, nDigits, addChar),
               OldNames(g.tras, exc.tras),
               NewNames(g.tras, exc.tras, newName, nDigits, addChar))

\* ------------------------------------------------------------------------
\* Specification of rename: a geometry whose references are consistent
\* (region definitions name bodies of the geometry, scoring cards name its
\* regions, links name its transformations) is renamed once.
\* ------------------------------------------------------------------------

MaxRen == 2

RenPrefix == <<"G">>

RenDigits == 2

RenChar == <<"_">>

\* names in use before the renaming: plain ones, one contained in another,
\* and ones left by an earlier renaming with the same prefix
BodyNamePool ==
    { <<"B", "1">>, <<"B", "1", "0">> } \cup
    { TailNameInt(RenPrefix, RenDigits, RenChar, i) : i \in 1..2 }

RegNamePool ==
    { <<"R", "1">> } \cup
    { TailNameInt(RenPrefix, RenDigits, RenChar, i) : i \in 1..2 }

TraNamePool ==
    { <<"T", "1">> } \cup
    { TailNameInt(RenPrefix, RenDigits, RenChar, i) : i \in 1..2 }

\* the zone "+b1 -b2 -b3 ..." as a text
RECURSIVE ZoneText(_, _)
ZoneText(ns, i) ==
    IF i > Len(ns) THEN << >>
    ELSE (IF i = 1 THEN <<"+">> ELSE <<" ", "-">>) \o ns[i] \o ZoneText(ns, i + 1)

\* a geometry with bodies bn, regions rn (all defined by the zone of all
\* bodies) and transformations tn; lk tells which links and cards exist
RenGeo(bn, rn, tn, lk) ==
    [ EmptyGeo EXCEPT
        !.bods = [ i \in 1..Len(bn) |->
            Body(bn[i], IF i = 1 /\ "bod" \in lk /\ tn # << >>
                        THEN tn[Len(tn)] ELSE << >>) ],
        !.regs = [ i \in 1..Len(rn) |->
            [ Region(rn[i]) EXCEPT
                !.def = ZoneText(bn, 1),
                !.lat = IF i = Len(rn) /\ "lat" \in lk /\ tn # << >>
                        THEN rn[i] ELSE << >>,
                !.tr = IF i = Len(rn) /\ "lat" \in lk /\ tn # << >>
                       THEN tn[1] ELSE << >> ] ],
        !.tras = [ i \in 1..Len(tn) |-> Transformation(i, tn[i]) ],
        !.bins = IF "bin" \in lk
                 THEN << Usrbin(<<"U", "1">>,
                                IF tn # << >> THEN tn[Len(tn)] ELSE << >>) >>
                 ELSE << >>,
        !.scos = IF "sco" \in lk
                 THEN << [ Scoring(<<"S", "1">>, "USRTRACK") EXCEPT !.regs = rn ] >>
                 ELSE << >> ]

InitRename ==
    /\ \E bn \in InjSeqs(BodyNamePool, MaxRen) \ { << >> },
          rn \in InjSeqs(RegNamePool, MaxRen) \ { << >> },
          tn \in InjSeqs(TraNamePool, MaxRen),
          lk \in SUBSET {"bod", "lat", "bin", "sco"} :
            geo = RenGeo(bn, rn, tn, lk)
    /\ pre = EmptyGeo
    /\ op = [name |-> "init"]
    /\ out = NoneVal
    /\ halt = "run"
    /\ hist = << >>
    /\ ps = NoPs

\* the exceptions a call may pass: none, the first body, the last
\* transformation
RenExceptions(g) ==
    { NoExceptions, [NoExceptions EXCEPT !.bods = { g.bods[1].name }] } \cup
    { [NoExceptions EXCEPT !.tras = { g.tras[i].name }] : i \in { Len(g.tras) } \ {0} }

\* myGeo.rename(newName, exceptions=exc)
Rename ==
    /\ halt = "run"
    /\ op.name = "init"
    /\ \E exc \in RenExceptions(geo) :
       \E r \in { rename(geo, RenPrefix, RenDigits, RenChar, exc) } :
          /\ op' = [name |-> "rename", newName |-> RenPrefix, exceptions |-> exc]
          /\ pre' = geo
          /\ geo' = IF r = ExitVal THEN geo ELSE r
          /\ halt' = IF r = ExitVal THEN "exit" ELSE "run"
    /\ UNCHANGED <<out, hist, ps>>

NextRename == Rename

SpecRename == InitRename /\ [][NextRename]_vars

\* the name after the renaming of the entity of lstPre called n
RenamedAs(lstPre, lstPost, n) ==
    lstPost[FirstIdx(lstPre, LAMBDA e : e.name = n, 1)].name

\* the link of entity e of the geometry before is kept by entity f after
LinkKept(e, f) == f.tr = RenamedAs(pre.tras, geo.tras, e.tr)

\* C4: after rename(prefix) with no exceptions the i-th body, region and
\* transformation carries the name made of the prefix and of the index i,
\* every region definition names exactly the renamed bodies it named
\* before, every scoring card names the renamed regions it named before,
\* and every link of a body, of a lattice region and of a USRBIN names the
\* renamed transformation it named before.
C4_RenameConsistent ==
    (op.name = "rename" /\ op.exceptions = NoExceptions /\ halt = "run") =>
        /\ \A i \in 1..Len(geo.bods) :
              geo.bods[i].name = TailNameInt(op.newName, RenDigits, RenChar, i)
        /\ \A i \in 1..Len(geo.regs) :
              geo.regs[i].name = TailNameInt(op.newName, RenDigits, RenChar, i)
        /\ \A i \in 1..Len(geo.tras) :
              geo.tras[i].name = TailNameInt(op.newName, RenDigits, RenChar, i)
        /\ \A i \in 1..Len(geo.regs) :
              RetBodiesInDef(geo.regs[i]) =
                  SeqMap(LAMBDA n : RenamedAs(pre.bods, geo.bods, n),
                         RetBodiesInDef(pre.regs[i]))
        /\ \A i \in 1..Len(geo.scos) :
              geo.scos[i].regs =
                  SeqMap(LAMBDA n : RenamedAs(pre.regs, geo.regs, n),
                         pre.scos[i].regs)
        /\ \A i \in 1..Len(geo.bods) :
              IF IsLinked(pre.bods[i]) THEN LinkKept(pre.bods[i], geo.bods[i])
              ELSE ~IsLinked(geo.bods[i])
        /\ \A i \in 1..Len(geo.regs) :
              IF IsLattice(pre.regs[i]) THEN LinkKept(pre.regs[i], geo.regs[i])
              ELSE ~IsLattice(geo.regs[i])
        /\ \A i \in 1..Len(geo.bins) :
              IF IsLinked(pre.bins[i]) THEN LinkKept(pre.bins[i], geo.bins[i])
              ELSE ~IsLinked(geo.bins[i])

\* ------------------------------------------------------------------------
\* Geometry.solidTrasform.  Points are triples of integers, angles are
\* multiples of 90 degrees, a rotation matrix is a rotation about one axis;
\* names are lists of characters, as for rename.  A body definition is the
\* position and the direction of the body, a USRBIN definition the position
\* of the mesh.
\* ------------------------------------------------------------------------

VAdd(a, b) == <<a[1] + b[1], a[2] + b[2], a[3] + b[3]>>

VNeg(a) == <<0 - a[1], 0 - a[2], 0 - a[3]>>

\* rotation of v by 90 degrees about axis ax, right-handed
Rot90(ax, v) ==
    IF ax = 1 THEN <<v[1], 0 - v[3], v[2]>>
    ELSE IF ax = 2 THEN <<v[3], v[2], 0 - v[1]>>
    ELSE <<0 - v[2], v[1], v[3]>>

RECURSIVE RotQuarters(_, _, _)
RotQuarters(ax, k, v) ==
    IF k = 0 THEN v ELSE RotQuarters(ax, k - 1, Rot90(ax, v))

RotVec(ax, ang, v) == RotQuarters(ax, (ang % 360) \div 90, v)

\* RotMat(myAng=myTheta,myAxis=myAxis)
RotMat(myAng, myAxis) == [ax |-> myAxis, ang |-> myAng % 360]

\* myMat.inv()
MatInv(m) == [ax |-> m.ax, ang |-> (0 - m.ang) % 360]

\* myMat.GetGimbalAngles(): the angle about each of the three axes, in
\* (-180,180]
GetGimbalAngles(m) ==
    [ a \in 1..3 |-> IF a = m.ax
                     THEN (IF m.ang > 180 THEN m.ang - 360 ELSE m.ang) ELSE 0 ]

\* RotDefi(myAx=..,myTh=..) and RotDefi(myDD=..): an elementary step
RotDefi(myAx, myTh, myDD) == [axis |-> myAx, theta |-> myTh, DD |-> myDD]

Zero3 == <<0, 0, 0>>

\* Body.rotate(myMat=myMat) and Body.traslate(dd=dd)
BodyRotate(b, m) ==
    [b EXCEPT !.def = [pos |-> RotVec(m.ax, m.ang, b.def.pos),
                       dir |-> RotVec(m.ax, m.ang, b.def.dir)]]

BodyTraslate(b, dd) == [b EXCEPT !.def.pos = VAdd(@, dd)]

\* Usrbin.move(dd,axes=["X","Y","Z"],lAbs=False)
UsrbinMove(b, dd) == [b EXCEPT !.def.pos = VAdd(@, dd)]

\* GeoObject.headMe(myComment)
HeadMe(e, myComment) == [e EXCEPT !.comment = <<myComment>> \o @]

\* Transformation.AddRotDefis(newRotDefis,iAdd): the steps are added one at
\* a time, at the head of the list (iAdd=0) or at its end (iAdd=-1)
RECURSIVE AddRotDefis(_, _, _)
AddRotDefis(steps, newRotDefis, iAdd) ==
    IF newRotDefis = << >> THEN steps
    ELSE AddRotDefis(IF iAdd = 0 THEN <<newRotDefis[1]>> \o steps
                     ELSE Append(steps, newRotDefis[1]),
                     Tail(newRotDefis), iAdd)

Reversed(s) == [ i \in 1..Len(s) |-> s[Len(s) + 1 - i] ]

\* the non-null angles of a matrix, one step per axis, each with sign sgn
GimbalSteps(thetas, sgn) ==
    SeqMap(LAMBDA a : RotDefi(a, sgn * thetas[a], Zero3),
           SelectSeq(<<1, 2, 3>>, LAMBDA a : thetas[a] # 0))

\* the rotation part of ROTDEFIlist: rot is None, a single angle and axis
\* [th, ax], or lists of angles and axes [ths, axs] (applied one by one by
\* recursive calls, so that they give no step here)
RotSteps(myMat, rot) ==
    IF myMat # NoneVal THEN GimbalSteps(GetGimbalAngles(myMat), 1)
    ELSE IF rot # NoneVal /\ "th" \in DOMAIN rot /\ rot.th # 0
         THEN << RotDefi(rot.ax, rot.th, Zero3) >>
    ELSE << >>

\* ROTDEFIlist with the translation recorded as given
ROTDEFIlistSameDD(dd, myMat, rot) ==
    RotSteps(myMat, rot) \o
    (IF dd # NoneVal THEN << RotDefi(3, 0, dd.v) >> ELSE << >>)

\* ROTDEFIlist: the rotation step(s), then the opposite of the translation
ROTDEFIlist(dd, myMat, rot) ==
    RotSteps(myMat, rot) \o
    (IF dd # NoneVal THEN << RotDefi(3, 0, VNeg(dd.v)) >> ELSE << >>)

\* ROTDEFIlistINV (lWrapGeo)
ROTDEFIlistINV(dd, myMat, rot) ==
    SeqMap(LAMBDA s : RotDefi(s.axis, 0 - s.theta, Zero3), RotSteps(myMat, rot)) \o
    (IF dd # NoneVal THEN << RotDefi(3, 0, dd.v) >> ELSE << >>)

\* "if (not lGeoDirs)": the bodies are rotated, then traslated
BakeBodies(g, dd, myMat, rot) ==
    [g EXCEPT !.bods = [ i \in 1..Len(g.bods) |->
        LET m == IF myMat # NoneVal THEN myMat
                 ELSE IF rot # NoneVal /\ "th" \in DOMAIN rot /\ rot.th # 0
                      THEN RotMat(rot.th, rot.ax)
                 ELSE NoneVal
            b == IF m = NoneVal THEN g.bods[i] ELSE BodyRotate(g.bods[i], m)
        IN  IF dd = NoneVal THEN b ELSE BodyTraslate(b, dd.v) ]]

\* the transformations the entities of lst are linked to, each once, in
\* the order of the entities (tTrasfs before Tname is added)
LinkedNames(lst) ==
    Dedup(SeqMap(LAMBDA e : e.tr, SelectSeq(lst, IsLinked)))

\* "for myTrasName in tTrasfs: myTras.AddRotDefis(...,iAdd=0)", and for the
\* LATTICEs with lWrapGeo "myTras.AddRotDefis(reversed(...),iAdd=-1)"
RECURSIVE UpdateTras(_, _, _, _)
UpdateTras(tras, tTrasfs, list, listInv) ==
    IF tTrasfs = << >> THEN tras
    ELSE UpdateTras(
            [ tras EXCEPT ![FirstIdx(tras, LAMBDA t : t.name = tTrasfs[1], 1)].steps =
                  AddRotDefis(AddRotDefis(@, list, 0), listInv, -1) ],
            Tail(tTrasfs), list, listInv)

\* "if (lCreate and myComment is not None): myEntry.headMe(myComment)"
Commented(tras, lCreate, Tname, myComment) ==
    IF lCreate /\ myComment # NoneVal
    THEN [ tras EXCEPT ![FirstIdx(tras, LAMBDA t : t.name = Tname, 1)] =
               HeadMe(@, myComment.text) ]
    ELSE tras

\* the end of each of the three parts, once the entities with no link are
\* linked to Tname (g), given the transformations already linked (tTrasfs),
\* whether Tname is needed (lCreate) and the geometry with Tname in (added)
PartWith(g, added, lNew, tTrasfs, lCreate, Tname, list, listInv, myComment) ==
    IF \E n \in Range(tTrasfs) \cup (IF lNew THEN {Tname} ELSE {}) :
          FirstIdx(added.tras, LAMBDA t : t.name = n, 1) = 0
    THEN ExitVal
    ELSE [ added EXCEPT !.tras =
             Commented(UpdateTras(@, tTrasfs \o (IF lNew THEN <<Tname>> ELSE << >>),
                                  list, listInv),
                       lCreate, Tname, myComment) ]

Part(g, tTrasfs, lCreate, Tname, list, listInv, myComment) ==
    IF lCreate /\ FindByName(g.tras, Tname).e = NoneVal
    THEN PartWith(g, Add(g, Transformation(Len(g.tras) + 1, Tname), "TRAS"),
                  TRUE, tTrasfs, lCreate, Tname, list, listInv, myComment)
    ELSE PartWith(g, g, FALSE, tTrasfs, lCreate, Tname, list, listInv, myComment)

\* bodies
BodiesPart(g, Tname, list, myComment) ==
    IF g = ExitVal THEN ExitVal
    ELSE Part([ g EXCEPT !.bods = [ i \in 1..Len(g.bods) |->
                  IF IsLinked(g.bods[i]) THEN g.bods[i]
                  ELSE [g.bods[i] EXCEPT !.tr = Tname] ] ],
              LinkedNames(g.bods),
              \E b \in Range(g.bods) : ~IsLinked(b),
              Tname, list, << >>, myComment)

\* LATTICEs
LatticesPart(g, Tname, list, listInv, myComment) ==
    IF g = ExitVal THEN ExitVal
    ELSE Part([ g EXCEPT !.regs = [ i \in 1..Len(g.regs) |->
                  IF IsLattice(g.regs[i]) /\ ~IsLinked(g.regs[i])
                  THEN [g.regs[i] EXCEPT !.tr = Tname] ELSE g.regs[i] ] ],
              LinkedNames(SelectSeq(g.regs, IsLattice)),
              \E r \in Range(g.regs) : IsLattice(r) /\ ~IsLinked(r),
              Tname, list, listInv, myComment)

\* USRBIN part
UsrbinsPart(g, Tname, list, dd, lTraslOnly, myComment) ==
    IF g = ExitVal THEN ExitVal
    ELSE Part([ g EXCEPT !.bins = [ i \in 1..Len(g.bins) |->
                  IF IsLinked(g.bins[i]) THEN g.bins[i]
                  ELSE IF lTraslOnly THEN UsrbinMove(g.bins[i], dd.v)
                  ELSE [g.bins[i] EXCEPT !.tr = Tname] ] ],
              LinkedNames(g.bins),
              ~lTraslOnly /\ \E b \in Range(g.bins) : ~IsLinked(b),
              Tname, list, << >>, myComment)
ToFinPos == <<"T", "o", "F", "i", "n", "P", "o", "s">>

\* "if (len(ROTDEFIlist)>0)": the three parts, for the bodies (lGeoDirs),
\* the LATTICEs and the USRBINs (not lOnlyGeo)
Attach(g, list, listInv, dd, lTraslOnly, lGeoDirs, lOnlyGeo, lWrapGeo, myName, myComment) ==
    IF list = << >> THEN g
    ELSE (IF lOnlyGeo THEN LatticesPart(
                 IF lGeoDirs
                 THEN BodiesPart(g, myName \o <<"_", "b", "d", "y">>, list, myComment)
                 ELSE g,
                 myName \o <<"_", "l", "a", "t">>, list,
                 IF lWrapGeo THEN listInv ELSE << >>, myComment)
          ELSE UsrbinsPart(
                 LatticesPart(
                     IF lGeoDirs
                     THEN BodiesPart(g, myName \o <<"_", "b", "d", "y">>, list, myComment)
                     ELSE g,
                     myName \o <<"_", "l", "a", "t">>, list,
                     IF lWrapGeo THEN listInv ELSE << >>, myComment),
                 myName \o <<"_", "b", "i", "n">>, list, dd, lTraslOnly, myComment))

\* a call with no list of angles
SolidOne(g, dd, myMat, rot, lGeoDirs, lOnlyGeo, lWrapGeo, myName, myComment) ==
    IF g = ExitVal THEN ExitVal
    ELSE Attach(IF lGeoDirs THEN g ELSE BakeBodies(g, dd, myMat, rot),
                ROTDEFIlist(dd, myMat, rot),
                Reversed(ROTDEFIlistINV(dd, myMat, rot)),
                dd, dd # NoneVal /\ myMat = NoneVal /\ rot = NoneVal,
                lGeoDirs, lOnlyGeo, lWrapGeo, myName, myComment)

\* "for myT,myAx in zip(myTheta,myAxis): self.solidTrasform(myTheta=myT,
\* myAxis=myAx,...)": name and comment are not handed over
RECURSIVE SolidList(_, _, _, _, _, _)
SolidList(g, ths, axs, lGeoDirs, lOnlyGeo, lWrapGeo) ==
    IF ths = << >> \/ axs = << >> THEN g
    ELSE SolidList(SolidOne(g, NoneVal, NoneVal, [th |-> ths[1], ax |-> axs[1]],
                            lGeoDirs, lOnlyGeo, lWrapGeo, ToFinPos, NoneVal),
                   Tail(ths), Tail(axs), lGeoDirs, lOnlyGeo, lWrapGeo)

\* Geometry.solidTrasform(dd,myMat,myTheta/myAxis (rot),lGeoDirs,lOnlyGeo,
\* lWrapGeo,myName,myComment): the geometry, or ExitVal where the code stops
solidTrasform(g, dd, myMat, rot, lGeoDirs, lOnlyGeo, lWrapGeo, myName, myComment) ==
    IF myMat = NoneVal /\ rot = NoneVal /\ dd = NoneVal THEN g
    ELSE IF myMat = NoneVal /\ rot # NoneVal /\ "ths" \in DOMAIN rot
         THEN IF Len(rot.ths) # Len(rot.axs) THEN ExitVal
              ELSE SolidOne(SolidList(g, rot.ths, rot.axs, lGeoDirs, lOnlyGeo, lWrapGeo),
                            dd, myMat, rot, lGeoDirs, lOnlyGeo, lWrapGeo, myName, myComment)
    ELSE SolidOne(g, dd, myMat, rot, lGeoDirs, lOnlyGeo, lWrapGeo, myName, myComment)
\* ------------------------------------------------------------------------
\* Specification of solidTrasform: one call on a geometry with bodies, a
\* region, possibly a LATTICE region and a USRBIN, linked or not to
\* transformations of the geometry.
\* ------------------------------------------------------------------------

MaxTrBods == 2

T1 == <<"T", "1">>

ToFinPosBdy == ToFinPos \o <<"_", "b", "d", "y">>

\* a transformation with one step already
OldTransformation(id, n) ==
    [Transformation(id, n) EXCEPT !.steps = << RotDefi(1, 90, Zero3) >>]

TrasChoices ==
    { << >>, << OldTransformation(1, T1) >>,
      << OldTransformation(1, T1), OldTransformation(2, ToFinPosBdy) >> }

\* the links an entity may have in a geometry with transformations tras
LinkChoices(tras) == { << >> } \cup { t.name : t \in Range(tras) }

TrasfBody(i, t) ==
    [Body(<<"B", DigitChar(i)>>, t) EXCEPT !.def = [pos |-> <<i, 0, 0>>, dir |-> <<0, 0, 1>>]]

LatRegion(t) ==
    [Region(<<"L", "1">>) EXCEPT !.lat = <<"L", "1">>, !.tr = t, !.mat = "VACUUM"]

PlainRegion(bods) ==
    [Region(<<"R", "1">>) EXCEPT !.lat = << >>, !.tr = << >>,
                                 !.def = ZoneText(Names(bods), 1)]

TrasfUsrbin(t) == [Usrbin(<<"U", "1">>, t) EXCEPT !.def = [pos |-> <<0, 0, 0>>]]

InitTrasf ==
    /\ \E tras \in TrasChoices, n \in 1..MaxTrBods :
       \E bl \in [1..n -> LinkChoices(tras)],
          lat \in SUBSET ((LinkChoices(tras) \ { ToFinPosBdy })),
          bin \in SUBSET ((LinkChoices(tras) \ { ToFinPosBdy })) :
            /\ Cardinality(lat) <= 1
            /\ Cardinality(bin) <= 1
            /\ geo = [ EmptyGeo EXCEPT
                  !.bods = [ i \in 1..n |-> TrasfBody(i, bl[i]) ],
                  !.regs = << PlainRegion([ i \in 1..n |-> TrasfBody(i, bl[i]) ]) >> \o
                           (IF lat = {} THEN << >>
                            ELSE << LatRegion(CHOOSE t \in lat : TRUE) >>),
                  !.tras = tras,
                  !.bins = IF bin = {} THEN << >>
                           ELSE << TrasfUsrbin(CHOOSE t \in bin : TRUE) >> ]
    /\ pre = EmptyGeo
    /\ op = [name |-> "init"]
    /\ out = NoneVal
    /\ halt = "run"
    /\ hist = << >>
    /\ ps = NoPs

\* the arguments of the calls
DDs == { NoneVal, [v |-> Zero3], [v |-> <<0, 0, 10>>] }

Rots ==
    { NoneVal, [th |-> 0, ax |-> 2], [th |-> 90, ax |-> 2],
      [ths |-> <<90, 0>>, axs |-> <<2, 3>>], [ths |-> <<90>>, axs |-> <<2, 3>>] }

MatRots ==
    { <<NoneVal, r>> : r \in Rots } \cup
    { <<RotMat(0, 3), NoneVal>>, <<RotMat(90, 2), NoneVal>> }

Comments == { NoneVal, [text |-> "moved"] }

\* myGeo.solidTrasform(dd=..,myMat=..,myTheta=..,myAxis=..,lGeoDirs=..,
\* lOnlyGeo=..,lWrapGeo=..,myComment=..)
SolidTrasform ==
    /\ halt = "run"
    /\ op.name = "init"
    /\ \E dd \in DDs, mr \in MatRots, lGeoDirs \in BOOLEAN, lOnlyGeo \in BOOLEAN,
          lWrapGeo \in BOOLEAN, myComment \in Comments :
       \E r \in { solidTrasform(geo, dd, mr[1], mr[2], lGeoDirs, lOnlyGeo, lWrapGeo,
                                ToFinPos, myComment) } :
          /\ op' = [name |-> "solidTrasform", dd |-> dd, myMat |-> mr[1], rot |-> mr[2],
                    lGeoDirs |-> lGeoDirs, lOnlyGeo |-> lOnlyGeo, lWrapGeo |-> lWrapGeo,
                    myName |-> ToFinPos, myComment |-> myComment]
          /\ pre' = geo
          /\ geo' = IF r = ExitVal THEN geo ELSE r
          /\ halt' = IF r = ExitVal THEN "exit" ELSE "run"
    /\ UNCHANGED <<out, hist, ps>>

NextTrasf == SolidTrasform

SpecTrasf == InitTrasf /\ [][NextTrasf]_vars

\* the call records an external transformation for a rotation by one angle
\* about one axis combined with a translation, on bodies with no link
C5_Case ==
    /\ op.name = "solidTrasform"
    /\ halt = "run"
    /\ op.lGeoDirs
    /\ op.myMat = NoneVal
    /\ op.rot # NoneVal /\ "th" \in DOMAIN op.rot /\ op.rot.th # 0
    /\ op.dd # NoneVal
    /\ \A b \in Range(pre.bods) : ~IsLinked(b)

\* the steps of the transformation body b is linked to
C5_Steps(b) == FindByName(geo.tras, b.tr).e.steps

C6_ZeroTransformChangesNothing ==
    ( /\ op.name = "solidTrasform"
      /\ op.dd = [v |-> Zero3]
      /\ \/ op.myMat = NoneVal /\ op.rot = [th |-> 0, ax |-> 2]
         \/ op.myMat = RotMat(0, 3) ) =>
        /\ halt = "run"
        /\ geo = pre

\* the call records a transformation of at least one step, has no null
\* translation and no lists of angles and axes, and comes to its end
C21_Case ==
    /\ op.name = "solidTrasform"
    /\ halt = "run"
    /\ ~(op.myMat = NoneVal /\ op.rot # NoneVal /\ "ths" \in DOMAIN op.rot)
    /\ ROTDEFIlist(op.dd, op.myMat, op.rot) # << >>
    /\ op.dd # [v |-> Zero3]

\* the entities of the classes the call is about: the bodies (lGeoDirs),
\* the LATTICE regions, the USRBINs (not lOnlyGeo)
C21_Targets(g) ==
    (IF op.lGeoDirs THEN Range(g.bods) ELSE {})
    \cup { r \in Range(g.regs) : IsLattice(r) }
    \cup (IF op.lOnlyGeo THEN {} ELSE Range(g.bins))

\* a USRBIN with no link that a call with a translation alone moves
C21_MovedOnly(b) ==
    /\ b \in Range(geo.bins)
    /\ ~IsLinked(b)
    /\ op.dd # NoneVal /\ op.myMat = NoneVal /\ op.rot = NoneVal

\* the names the call may give: myName_bdy, myName_lat, myName_bin, each with
\* the entities of its class before the call
C21_Classes ==
    { [n |-> op.myName \o <<"_", "b", "d", "y">>,
       es |-> IF op.lGeoDirs THEN Range(pre.bods) ELSE {}],
      [n |-> op.myName \o <<"_", "l", "a", "t">>,
       es |-> { r \in Range(pre.regs) : IsLattice(r) }],
      [n |-> op.myName \o <<"_", "b", "i", "n">>,
       es |-> IF op.lOnlyGeo THEN {} ELSE Range(pre.bins)] }

\* the steps of the transformation n before the call (none if it is new)
C21_Old(n) ==
    IF FindByName(pre.tras, n).e = NoneVal THEN << >> ELSE FindByName(pre.tras, n).e.steps

\* the steps s are the steps old with the steps of the call put once at
\* their head (and, with lWrapGeo, possibly the opposite steps at their end)
C21_Once(s, old) ==
    \/ s = AddRotDefis(old, ROTDEFIlist(op.dd, op.myMat, op.rot), 0)
    \/ /\ op.lWrapGeo
       /\ s = AddRotDefis(AddRotDefis(old, ROTDEFIlist(op.dd, op.myMat, op.rot), 0),
                          Reversed(ROTDEFIlistINV(op.dd, op.myMat, op.rot)), -1)

\* C21: after a call of solidTrasform that records a transformation, every
\* body (lGeoDirs), every LATTICE region and every USRBIN (not lOnlyGeo,
\* but for a USRBIN with no link moved by a translation alone) is linked
\* to a transformation of the geometry; a transformation myName_bdy,
\* myName_lat or myName_bin is new only if an entity of its class had no
\* link and no transformation had that name; every transformation that an
\* entity of these classes is linked to has the steps of the call at the
\* head of its steps exactly once.
C21_LinkedAndPrependedOnce ==
    C21_Case =>
        /\ \A e \in C21_Targets(geo) :
              ~C21_MovedOnly(e) =>
                 /\ IsLinked(e)
                 /\ FindByName(geo.tras, e.tr).e # NoneVal
        /\ \A t \in Range(geo.tras) :
              FindByName(pre.tras, t.name).e = NoneVal =>
                 \E c \in C21_Classes : t.name = c.n /\ \E e \in c.es : ~IsLinked(e)
        /\ \A e \in C21_Targets(geo) :
              (IsLinked(e) /\ FindByName(geo.tras, e.tr).e # NoneVal) =>
                 C21_Once(FindByName(geo.tras, e.tr).e.steps, C21_Old(e.tr))

\* ------------------------------------------------------------------------
\* Specification of solidTrasform called with a name: one call, with one
\* angle given as a number or as a list of one number.
\* ------------------------------------------------------------------------

MyPos == <<"M", "y", "P", "o", "s">>

NamedRots == { [th |-> 90, ax |-> 2], [ths |-> <<90>>, axs |-> <<2>>] }

\* myGeo.solidTrasform(dd=..,myTheta=..,myAxis=..,lGeoDirs=..,lOnlyGeo=..,
\* lWrapGeo=..,myName=..,myComment=..)
SolidTrasformNamed ==
    /\ halt = "run"
    /\ op.name = "init"
    /\ \E dd \in DDs \ { NoneVal }, rot \in NamedRots, lGeoDirs \in BOOLEAN,
          lOnlyGeo \in BOOLEAN, lWrapGeo \in BOOLEAN, myName \in { ToFinPos, MyPos },
          myComment \in Comments :
       \E r \in { solidTrasform(geo, dd, NoneVal, rot, lGeoDirs, lOnlyGeo, lWrapGeo,
                                myName, myComment) } :
          /\ op' = [name |-> "solidTrasform", dd |-> dd, myMat |-> NoneVal, rot |-> rot,
                    lGeoDirs |-> lGeoDirs, lOnlyGeo |-> lOnlyGeo, lWrapGeo |-> lWrapGeo,
                    myName |-> myName, myComment |-> myComment]
          /\ pre' = geo
          /\ geo' = IF r = ExitVal THEN geo ELSE r
          /\ halt' = IF r = ExitVal THEN "exit" ELSE "run"
    /\ UNCHANGED <<out, hist, ps>>

NextNamed == SolidTrasformNamed

SpecNamed == InitTrasf /\ [][NextNamed]_vars

\* what the call with the angle and the axis as numbers gives
C28_Scalar ==
    solidTrasform(pre, op.dd, NoneVal, [th |-> op.rot.ths[1], ax |-> op.rot.axs[1]],
                  op.lGeoDirs, op.lOnlyGeo, op.lWrapGeo, op.myName, op.myComment)

\* C28: solidTrasform called with myTheta=[t], myAxis=[a], a translation, a
\* name given by the caller and a comment leaves the geometry as the call
\* with the numbers t and a does: the same transformations with the same
\* names, steps and comments, and the same links.
C28_ListOfOneAsScalar ==
    ( /\ op.name = "solidTrasform"
      /\ "ths" \in DOMAIN op.rot
      /\ op.dd # [v |-> Zero3]
      /\ op.myName = MyPos
      /\ op.myComment # NoneVal )
    => IF C28_Scalar = ExitVal THEN halt = "exit"
       ELSE halt = "run" /\ geo = C28_Scalar

\* ------------------------------------------------------------------------
\* Geometry.flagRegs and MapContRegs
\* ------------------------------------------------------------------------

\* Region.initCont(rCont=rCont,rCent=rCent)
InitCont(r, rCont, rCent) == [r EXCEPT !.rCont = rCont, !.rCent = rCent]

\* "for whichReg in regs2mod: outReg,iReg=self.ret("reg",whichReg);
\* outReg.initCont(...)": no region of that name stops the program
RECURSIVE FlagEach(_, _, _, _)
FlagEach(g, regs2mod, rCont, rCent) ==
    IF regs2mod = << >> THEN g
    ELSE IF FindByName(g.regs, regs2mod[1]).e = NoneVal THEN ExitVal
    ELSE FlagEach([g EXCEPT !.regs[FindByName(g.regs, regs2mod[1]).i + 1] =
                                 InitCont(@, rCont, rCent)],
                  Tail(regs2mod), rCont, rCent)

\* Geometry.flagRegs(whichRegs,rCont,rCent), whichRegs being a list of names
\* (a single name counts as the list of that name)
flagRegs(g, whichRegs, rCont, rCent) ==
    FlagEach(g, IF \E i \in 1..Len(whichRegs) : whichRegs[i] = "ALL"
                THEN Names(g.regs) ELSE whichRegs,
             rCont, rCent)

\* the result of MapContRegs given the flagged regions of the two geometries
Mapping(iRhg, iRgg, mapType) ==
    [mapping |-> [iRhg |-> iRhg, iRgg |-> iRgg,
                  jRhg |-> [ i \in 1..Len(iRhg) |-> 0 ],
                  jRgg |-> [ i \in 1..Len(iRgg) |-> 0 ]],
     mapType |-> mapType]

\* MapContRegs where one contained region is required to have exactly one
\* container
MapFlaggedOneToOne(iRhgs, iRggs) ==
    IF Len(iRhgs) > 1 /\ Len(iRggs) > 1 THEN ExitVal
    ELSE IF Len(iRhgs) = 1 /\ Len(iRggs) = 1
         THEN Mapping(iRhgs, [ i \in 1..Len(iRhgs) |-> iRggs[1] ], "oneGrid")
    ELSE IF iRhgs = << >> /\ iRggs # << >> THEN ExitVal
    ELSE Mapping([ i \in 1..Len(iRggs) |-> iRhgs[1] ], iRggs, "oneHive")

\* MapContRegs once iRhgs and iRggs are known; iRhgs[0] with no container
\* stops the program
MapFlagged(iRhgs, iRggs) ==
    IF Len(iRhgs) > 1 /\ Len(iRggs) > 1 THEN ExitVal
    ELSE IF Len(iRhgs) >= 1 /\ Len(iRggs) = 1
         THEN Mapping(iRhgs, [ i \in 1..Len(iRhgs) |-> iRggs[1] ], "oneGrid")
    ELSE IF iRhgs = << >> /\ iRggs # << >> THEN ExitVal
    ELSE Mapping([ i \in 1..Len(iRggs) |-> iRhgs[1] ], iRggs, "oneHive")

\* MapContRegs(CtainGeo,CinedGeo)
MapContRegs(CtainGeo, CinedGeo) ==
    MapFlagged(SelectIdx(CtainGeo.regs, LAMBDA r : r.rCont = 1, 1),
               SelectIdx(CinedGeo.regs, LAMBDA r : r.rCont = -1, 1))

\* ------------------------------------------------------------------------
\* Specification of the flag-based mapping: geo is the geometry with the
\* container regions, hist[1] the geometry with the contained ones; their
\* regions are flagged by flagRegs, then MapContRegs is called.
\* ------------------------------------------------------------------------

MaxMapRegs == 3

MapRegName(i) == CASE i = 1 -> "R1" [] i = 2 -> "R2" [] i = 3 -> "R3" [] OTHER -> "R4"

MapGeo(n) == [EmptyGeo EXCEPT !.regs = [ i \in 1..n |-> Region(MapRegName(i)) ]]

InitMap ==
    /\ \E n \in 1..MaxMapRegs, m \in 1..MaxMapRegs :
          geo = MapGeo(n) /\ hist = << MapGeo(m) >>
    /\ pre = EmptyGeo
    /\ op = [name |-> "init"]
    /\ out = NoneVal
    /\ halt = "run"
    /\ ps = NoPs

MapWhich(g) == { <<"ALL">>, <<"R9">> } \cup { <<r.name>> : r \in Range(g.regs) }

\* CtainGeo.flagRegs(whichRegs,rCont)
FlagCtain ==
    /\ halt = "run" /\ out = NoneVal
    /\ \E w \in MapWhich(geo), rCont \in {-1, 0, 1} :
       \E r \in { flagRegs(geo, w, rCont, Zero3) } :
          /\ geo' = IF r = ExitVal THEN geo ELSE r
          /\ halt' = IF r = ExitVal THEN "exit" ELSE "run"
    /\ op' = [name |-> "flagRegs"]
    /\ UNCHANGED <<pre, out, hist, ps>>

\* CinedGeo.flagRegs(whichRegs,rCont)
FlagCined ==
    /\ halt = "run" /\ out = NoneVal
    /\ \E w \in MapWhich(hist[1]), rCont \in {-1, 0, 1} :
       \E r \in { flagRegs(hist[1], w, rCont, Zero3) } :
          /\ hist' = IF r = ExitVal THEN hist ELSE << r >>
          /\ halt' = IF r = ExitVal THEN "exit" ELSE "run"
    /\ op' = [name |-> "flagRegs"]
    /\ UNCHANGED <<geo, pre, out, ps>>

\* MapContRegs(CtainGeo,CinedGeo)
MapRegs ==
    /\ halt = "run" /\ out = NoneVal
    /\ \E r \in { MapContRegs(geo, hist[1]) } :
          /\ out' = IF r = ExitVal THEN NoneVal ELSE r
          /\ halt' = IF r = ExitVal THEN "exit" ELSE "done"
    /\ op' = [name |-> "MapContRegs"]
    /\ UNCHANGED <<geo, pre, hist, ps>>

NextMap == FlagCtain \/ FlagCined \/ MapRegs

SpecMap == InitMap /\ [][NextMap]_vars

\* the regions (0-based, in region order) flagged as containers in geo and
\* as contained in hist[1]
C7_Containers == SelectIdx(geo.regs, LAMBDA r : r.rCont = 1, 1)

C7_Contained == SelectIdx(hist[1].regs, LAMBDA r : r.rCont = -1, 1)

\* C7: with n>=1 container regions and exactly one contained region
\* MapContRegs gives mode "oneGrid" with n pairs that share the contained
\* index and list the containers in region order; with exactly one
\* container and m>=2 contained regions it gives mode "oneHive" with m
\* pairs that share the container index; with more than one container and
\* more than one contained region the call fails and gives no mapping.
C7_FlagBasedMapping ==
    op.name = "MapContRegs" =>
        /\ (Len(C7_Containers) >= 1 /\ Len(C7_Contained) = 1) =>
              /\ halt = "done"
              /\ out.mapType = "oneGrid"
              /\ out.mapping.iRhg = C7_Containers
              /\ out.mapping.iRgg = [ i \in 1..Len(C7_Containers) |-> C7_Contained[1] ]
        /\ (Len(C7_Containers) = 1 /\ Len(C7_Contained) >= 2) =>
              /\ halt = "done"
              /\ out.mapType = "oneHive"
              /\ out.mapping.iRgg = C7_Contained
              /\ out.mapping.iRhg = [ i \in 1..Len(C7_Contained) |-> C7_Containers[1] ]
        /\ (Len(C7_Containers) > 1 /\ Len(C7_Contained) > 1) =>
              halt = "exit" /\ out = NoneVal

C7_Witness ==
    /\ op.name = "MapContRegs"
    /\ C7_Containers = <<0, 1, 2>>
    /\ Len(hist[1].regs) = 3 /\ C7_Contained = <<1>>
    /\ out.mapType = "oneGrid"
    /\ out.mapping.iRhg = <<0, 1, 2>> /\ out.mapping.iRgg = <<1, 1, 1>>

\* C14: MapContRegs accepts only one container with one or more contained
\* regions, or one or more containers with one contained region; with any
\* other numbers of flagged regions, zero containers or zero contained
\* regions included, the call fails and gives no mapping.
C14_OtherCardinalitiesAreFatal ==
    (/\ op.name = "MapContRegs"
     /\ ~(Len(C7_Containers) = 1 /\ Len(C7_Contained) >= 1)
     /\ ~(Len(C7_Containers) >= 1 /\ Len(C7_Contained) = 1))
    => (halt = "exit" /\ out = NoneVal)

\* ------------------------------------------------------------------------
\* MapGridLocsOntoHiveLocs: the mapping based on the centres of the flagged
\* regions.  Coordinates are integers, in units of half the default
\* precision (prec=0.001 cm is 2 units).
\* ------------------------------------------------------------------------

prec == 2

\* the square of np.linalg.norm(a-b)
Norm2(a, b) ==
    (a[1] - b[1]) * (a[1] - b[1]) + (a[2] - b[2]) * (a[2] - b[2])
    + (a[3] - b[3]) * (a[3] - b[3])

\* "np.linalg.norm(...rCent-...rCent)<prec", centres compared exactly
CloseExact(a, b) == a.c = b.c

\* "np.linalg.norm(gridGeo[jRgg].regs[iRgg].rCent-hiveGeo[jRhg].regs[iRhg].rCent)<prec"
Close(a, b) == Norm2(a.c, b.c) < prec * prec

\* the regions of a list of geometries flagged rCont, geometry by geometry:
\* index in the geometry (i), index of the geometry (j), centre (c)
RECURSIVE FlaggedRegs(_, _, _)
FlaggedRegs(geos, jj, rCont) ==
    IF jj > Len(geos) THEN << >>
    ELSE SeqMap(LAMBDA ii : [i |-> ii, j |-> jj - 1, c |-> geos[jj].regs[ii + 1].rCent],
                SelectIdx(geos[jj].regs, LAMBDA r : r.rCont = rCont, 1))
         \o FlaggedRegs(geos, jj + 1, rCont)

\* len(np.unique(centres,axis=0))
NUnique(flagged) == Cardinality({ flagged[k].c : k \in 1..Len(flagged) })

\* the two nested loops: for every entry of outer, the entries of inner that
\* are close to it
ClosePairs(outer, inner) ==
    Concat([ a \in 1..Len(outer) |->
               SeqMap(LAMBDA b : [o |-> outer[a], n |-> b],
                      SelectSeq(inner, LAMBDA b : Close(outer[a], b))) ])

LocMapping(hs, gs, mapType) ==
    [mapping |-> [iRhg |-> SeqMap(LAMBDA h : h.i, hs), jRhg |-> SeqMap(LAMBDA h : h.j, hs),
                  iRgg |-> SeqMap(LAMBDA g : g.i, gs), jRgg |-> SeqMap(LAMBDA g : g.j, gs)],
     mapType |-> mapType]

\* MapGridLocsOntoHiveLocs once the flagged regions are listed
MapLocsOf(Rhgs, Rggs) ==
    IF Len(Rhgs) = NUnique(Rhgs)
    THEN LocMapping(SeqMap(LAMBDA p : p.o, ClosePairs(Rhgs, Rggs)),
                    SeqMap(LAMBDA p : p.n, ClosePairs(Rhgs, Rggs)), "oneHive")
    ELSE IF Len(Rggs) = NUnique(Rggs)
    THEN LocMapping(SeqMap(LAMBDA p : p.n, ClosePairs(Rggs, Rhgs)),
                    SeqMap(LAMBDA p : p.o, ClosePairs(Rggs, Rhgs)), "oneGrid")
    ELSE ExitVal

\* MapGridLocsOntoHiveLocs(hiveGeo,gridGeo), both lists of geometries
MapGridLocsOntoHiveLocs(hiveGeo, gridGeo) ==
    MapLocsOf(FlaggedRegs(hiveGeo, 1, 1), FlaggedRegs(gridGeo, 1, -1))

\* ------------------------------------------------------------------------
\* Specification of the centre-based mapping: geo holds the list of hive
\* geometries and the list of grid geometries; their regions are flagged by
\* flagRegs, then MapGridLocsOntoHiveLocs is called.
\* ------------------------------------------------------------------------

MaxLocRegs == 2

\* centres: two closer to each other than prec, one far away
Centres == { <<0, 0, 0>>, <<1, 0, 0>>, <<9, 0, 0>> }

\* the lists of one or two geometries with at most MaxLocRegs regions in all
LocLists ==
    { << MapGeo(n) >> : n \in 1..MaxLocRegs }
    \cup { << MapGeo(nm[1]), MapGeo(nm[2]) >> :
             nm \in { x \in (1..MaxLocRegs) \X (1..MaxLocRegs) : x[1] + x[2] <= MaxLocRegs } }

\* the flags given to the regions of the hive and of the grid (a grid region
\* may also be flagged as a container)
HiveFlags ==
    { [rCont |-> 1, rCent |-> c] : c \in Centres }
    \cup { [rCont |-> 0, rCent |-> Zero3] }

GridFlags ==
    { [rCont |-> -1, rCent |-> c] : c \in Centres }
    \cup { [rCont |-> 0, rCent |-> Zero3], [rCont |-> 1, rCent |-> Zero3] }

InitLoc ==
    /\ \E h \in LocLists, g \in LocLists : geo = [hive |-> h, grid |-> g]
    /\ pre = EmptyGeo
    /\ op = [name |-> "init"]
    /\ out = NoneVal
    /\ halt = "run"
    /\ hist = << >>
    /\ ps = NoPs

\* hiveGeo[j].flagRegs(name,rCont,rCent)
FlagHive ==
    /\ halt = "run" /\ out = NoneVal
    /\ \E j \in 1..Len(geo.hive), f \in HiveFlags :
       \E w \in Range(Names(geo.hive[j].regs)) :
          geo' = [geo EXCEPT !.hive[j] = flagRegs(@, <<w>>, f.rCont, f.rCent)]
    /\ op' = [name |-> "flagRegs"]
    /\ UNCHANGED <<pre, out, halt, hist, ps>>

\* gridGeo[j].flagRegs(name,rCont,rCent)
FlagGrid ==
    /\ halt = "run" /\ out = NoneVal
    /\ \E j \in 1..Len(geo.grid), f \in GridFlags :
       \E w \in Range(Names(geo.grid[j].regs)) :
          geo' = [geo EXCEPT !.grid[j] = flagRegs(@, <<w>>, f.rCont, f.rCent)]
    /\ op' = [name |-> "flagRegs"]
    /\ UNCHANGED <<pre, out, halt, hist, ps>>

\* MapGridLocsOntoHiveLocs(hiveGeo,gridGeo)
MapLocs ==
    /\ halt = "run" /\ out = NoneVal
    /\ \E r \in { MapGridLocsOntoHiveLocs(geo.hive, geo.grid) } :
          /\ out' = IF r = ExitVal THEN NoneVal ELSE r
          /\ halt' = IF r = ExitVal THEN "exit" ELSE "done"
    /\ op' = [name |-> "MapGridLocsOntoHiveLocs"]
    /\ UNCHANGED <<geo, pre, hist, ps>>

NextLoc == FlagHive \/ FlagGrid \/ MapLocs

SpecLoc == InitLoc /\ [][NextLoc]_vars

\* the places <<geometry, region>> (0-based) of the regions of a list of
\* geometries that carry a flag
C15_Places(geos, rCont) ==
    { p \in (0..(Len(geos) - 1)) \X (0..(MaxLocRegs - 1)) :
        /\ p[2] + 1 <= Len(geos[p[1] + 1].regs)
        /\ geos[p[1] + 1].regs[p[2] + 1].rCont = rCont }

C15_Centre(geos, p) == geos[p[1] + 1].regs[p[2] + 1].rCent

C15_Distinct(geos, places) ==
    \A p, q \in places : p # q => C15_Centre(geos, p) # C15_Centre(geos, q)

\* the pairs <<container place, contained place>> a mapping holds
C15_PairsOf(m) ==
    { << <<m.jRhg[k], m.iRhg[k]>>, <<m.jRgg[k], m.iRgg[k]>> >> : k \in 1..Len(m.iRhg) }

C27_SurvivorInOnePair ==
    (op.name = "MapGridLocsOntoHiveLocs" /\ halt = "done") =>
        \A pq, rs \in C15_PairsOf(out.mapping) :
            /\ (out.mapType = "oneHive" /\ pq[2] = rs[2]) => pq = rs
            /\ (out.mapType = "oneGrid" /\ pq[1] = rs[1]) => pq = rs

\* ------------------------------------------------------------------------
\* Geometry.ActualCopy, Geometry.LatticeCopy and Geometry.BuildGriddedGeo.
\* A location of the grid is a record [POINT, ANGLE, AXIS, MATRIX]: ANGLE and
\* AXIS are lists (empty when the orientation is given by MATRIX only).
\* ------------------------------------------------------------------------

LATREG == <<"L", "A", "T", "R", "E", "G">>

\* Geometry.ActualCopy(myGeo,lTrigScoring=lTrigScoring)
ActualCopy(myGeo, lTrigScoring) ==
    [ EmptyGeo EXCEPT
        !.bods = myGeo.bods,
        !.regs = myGeo.regs,
        !.tras = IF lTrigScoring THEN myGeo.tras
                 ELSE SelectSeq(myGeo.tras, LAMBDA t :
                          \E b \in Range(myGeo.bods) : IsLinked(b) /\ b.tr = t.name),
        !.bins = IF lTrigScoring THEN myGeo.bins ELSE << >>,
        !.scos = IF lTrigScoring THEN myGeo.scos ELSE << >>,
        !.title = myGeo.title ]

\* Geometry.LatticeCopy(myGeo,lTrigScoring=lTrigScoring)
LatticeCopy(myGeo, lTrigScoring) ==
    [ Add(EmptyGeo, [Region(LATREG) EXCEPT !.lat = LATREG, !.tr = << >>,
                                           !.mat = "VACUUM"], "REG")
      EXCEPT
        !.tras = IF lTrigScoring THEN myGeo.tras
                 ELSE SelectSeq(myGeo.tras, LAMBDA t :
                          ~\E b \in Range(myGeo.bins) : IsLinked(b) /\ b.tr = t.name),
        !.bins = IF lTrigScoring THEN myGeo.bins ELSE << >>,
        !.scos = IF lTrigScoring THEN myGeo.scos ELSE << >>,
        !.title = <<"LATTICE", "of">> \o myGeo.title ]

\* the clone moved to its place when ANGLE is not empty: for a LATTICE cell
\* (lLat) first back by the placement of the prototype, protoLoc
MoveByAngles(g, myLoc, protoLoc, lLat, lGeoDirs) ==
    solidTrasform(
        IF lLat
        THEN solidTrasform(
                 solidTrasform(g, [v |-> VNeg(protoLoc.POINT)], NoneVal, NoneVal,
                               lGeoDirs, TRUE, FALSE, ToFinPos, NoneVal),
                 NoneVal, NoneVal,
                 [ths |-> SeqMap(LAMBDA a : 0 - a, Reversed(protoLoc.ANGLE)),
                  axs |-> Reversed(protoLoc.AXIS)],
                 lGeoDirs, TRUE, FALSE, ToFinPos, NoneVal)
        ELSE g,
        [v |-> myLoc.POINT], NoneVal, [ths |-> myLoc.ANGLE, axs |-> myLoc.AXIS],
        lGeoDirs, FALSE, FALSE, ToFinPos, NoneVal)

\* the clone moved to its place when only MATRIX is given
MoveByMatrix(g, myLoc, protoLoc, lLat, lGeoDirs) ==
    solidTrasform(
        IF lLat
        THEN solidTrasform(
                 solidTrasform(g, [v |-> VNeg(protoLoc.POINT)], NoneVal, NoneVal,
                               lGeoDirs, FALSE, FALSE, ToFinPos, NoneVal),
                 NoneVal, MatInv(protoLoc.MATRIX), NoneVal,
                 lGeoDirs, TRUE, FALSE, ToFinPos, NoneVal)
        ELSE g,
        [v |-> myLoc.POINT], myLoc.MATRIX, NoneVal,
        lGeoDirs, FALSE, FALSE, ToFinPos, NoneVal)

\* "- move clone to requested location/orientation": iProto is the place
\* (0-based) where the prototype was first used; the matrix branch takes
\* the location of the cell itself as protoLoc
Move(g, myGrid, iLoc, iProto, lLat, lGeoDirs) ==
    IF Len(myGrid[iLoc + 1].ANGLE) > 0
    THEN MoveByAngles(g, myGrid[iLoc + 1], myGrid[iProto + 1], lLat, lGeoDirs)
    ELSE MoveByMatrix(g, myGrid[iLoc + 1], myGrid[iLoc + 1], lLat, lGeoDirs)

\* "- flag the region(s) ..."
FlagCell(g, whichRegs, myLoc) ==
    IF g = ExitVal THEN ExitVal ELSE flagRegs(g, whichRegs, -1, myLoc.POINT)

\* "- rename the clone": baseName="GR%03d"%(iLoc)
RenameCell(g, iLoc) ==
    IF g = ExitVal THEN ExitVal
    ELSE rename(g, <<"G", "R">> \o ZeroPad(iLoc, 3), 2, <<"_">>, NoExceptions)

\* one turn of the loop over the locations: the geometry of cell iLoc
GridCell(myGrid, iLoc, iProto, proto, osRegNames, lLat, lTrigScoring, lGeoDirs) ==
    RenameCell(
        FlagCell(
            Move(IF lLat THEN LatticeCopy(proto, lTrigScoring)
                 ELSE ActualCopy(proto, lTrigScoring),
                 myGrid, iLoc, iProto, lLat, lGeoDirs),
            IF lLat THEN << LATREG >> ELSE osRegNames, myGrid[iLoc + 1]),
        iLoc)

ProtoKeys == {"A", "B"}

\* the place where the prototype of cell iLoc is first used, -1 if not yet
\* (protoSeen[myProtoList[iLoc]])
ProtoSeen(myProtoList, iLoc) ==
    LET k == FirstIdx(SubSeq(myProtoList, 1, iLoc), LAMBDA p : p = myProtoList[iLoc + 1], 1)
    IN  k - 1

\* Geometry.BuildGriddedGeo: the list myGeos, or ExitVal where the code
\* stops; lTrigScoring is the list the caller gives, every prototype key
\* names the geometry proto
RECURSIVE BuildLoop(_, _, _, _, _, _, _, _, _)
LoopWith(cell, iLoc, myGeos, myGrid, myProtoList, proto, osRegNames, lLattice, lTrigScoring, lGeoDirs) ==
    IF cell = ExitVal THEN ExitVal
    ELSE BuildLoop(iLoc + 1, Append(myGeos, cell), myGrid, myProtoList, proto,
                   osRegNames, lLattice, lTrigScoring, lGeoDirs)

BuildLoop(iLoc, myGeos, myGrid, myProtoList, proto, osRegNames, lLattice, lTrigScoring, lGeoDirs) ==
    IF iLoc >= Len(myGrid) THEN [myGeos |-> myGeos]
    ELSE IF myProtoList[iLoc + 1] \notin ProtoKeys THEN ExitVal
    ELSE LoopWith(GridCell(myGrid, iLoc,
                           IF ProtoSeen(myProtoList, iLoc) = -1 THEN iLoc
                           ELSE ProtoSeen(myProtoList, iLoc),
                           proto, osRegNames,
                           lLattice /\ ProtoSeen(myProtoList, iLoc) # -1,
                           lTrigScoring[iLoc + 1], lGeoDirs),
                  iLoc, myGeos, myGrid, myProtoList, proto, osRegNames, lLattice,
                  lTrigScoring, lGeoDirs)

BuildGriddedGeo(myGrid, myProtoList, proto, osRegNames, lLattice, lTrigScoring, lGeoDirs) ==
    BuildLoop(0, << >>, myGrid, myProtoList, proto, osRegNames, lLattice,
              lTrigScoring, lGeoDirs)
\* ------------------------------------------------------------------------
\* Specification of BuildGriddedGeo: geo is the prototype geometry, hist
\* the list of geometries the call returns.  All the locations of a grid
\* are given the same way, by angles and axes or by matrix.
\* ------------------------------------------------------------------------

MaxLocs == 2

Loc(p, angle, axis, m) == [POINT |-> p, ANGLE |-> angle, AXIS |-> axis, MATRIX |-> m]

\* places at the origin or at (5,0,0), with no rotation or a quarter of a
\* turn about axis 3, given by angle and axis
AngleLocs ==
    { Loc(p, <<a>>, <<3>>, RotMat(a, 3)) : p \in { Zero3, <<5, 0, 0>> }, a \in {0, 90} }

\* the same places, given by matrix only
MatrixLocs ==
    { Loc(p, << >>, << >>, RotMat(a, 3)) : p \in { Zero3, <<5, 0, 0>> }, a \in {0, 90} }

\* the prototype: a body, a region, possibly a USRBIN
ProtoGeo(lBin) ==
    [ EmptyGeo EXCEPT
        !.bods = << TrasfBody(1, << >>) >>,
        !.regs = << PlainRegion(<< TrasfBody(1, << >>) >>) >>,
        !.bins = IF lBin THEN << TrasfUsrbin(<< >>) >> ELSE << >>,
        !.title = <<"proto">> ]

InitGrid ==
    /\ \E lBin \in BOOLEAN : geo = ProtoGeo(lBin)
    /\ pre = EmptyGeo
    /\ op = [name |-> "init"]
    /\ out = NoneVal
    /\ halt = "run"
    /\ hist = << >>
    /\ ps = NoPs

\* Geometry.BuildGriddedGeo(myGrid,myProtoList,{"A":geo,"B":geo},
\* osRegNames=..,lLattice=..,lTrigScoring=[..],lGeoDirs=..)
BuildGrid ==
    /\ halt = "run"
    /\ op.name = "init"
    /\ \E n \in 1..MaxLocs :
       \E myGrid \in [1..n -> AngleLocs] \cup [1..n -> MatrixLocs],
          myProtoList \in [1..n -> ProtoKeys] \cup { [ i \in 1..n |-> "X" ] },
          osRegNames \in { << >>, << <<"R", "1">> >>, << <<"R", "9">> >> },
          lLattice \in BOOLEAN, lTrig \in BOOLEAN, lGeoDirs \in BOOLEAN :
       \E r \in { BuildGriddedGeo(myGrid, myProtoList, geo, osRegNames, lLattice,
                                  [ i \in 1..n |-> lTrig ], lGeoDirs) } :
          /\ op' = [name |-> "BuildGriddedGeo", myGrid |-> myGrid,
                    myProtoList |-> myProtoList, osRegNames |-> osRegNames,
                    lLattice |-> lLattice, lTrigScoring |-> lTrig,
                    lGeoDirs |-> lGeoDirs]
          /\ hist' = IF r = ExitVal THEN << >> ELSE r.myGeos
          /\ halt' = IF r = ExitVal THEN "exit" ELSE "run"
    /\ UNCHANGED <<geo, pre, out, ps>>

NextGrid == BuildGrid

SpecGrid == InitGrid /\ [][NextGrid]_vars

\* the point p after the steps of a transformation, one after the other
RECURSIVE ApplySteps(_, _)
ApplySteps(steps, p) ==
    IF steps = << >> THEN p
    ELSE ApplySteps(Tail(steps), RotVec(steps[1].axis, steps[1].theta, VAdd(p, steps[1].DD)))

\* two lists of steps are the same transformation
SameMap(a, b) ==
    \A p \in { Zero3, <<1, 0, 0>>, <<0, 1, 0>>, <<0, 0, 1>> } :
        ApplySteps(a, p) = ApplySteps(b, p)

\* the steps recording the placement at a location: the translation, then
\* the rotations, last applied first
C8_PlacementSteps(loc) ==
    << RotDefi(3, 0, VNeg(loc.POINT)) >> \o
    Reversed(IF Len(loc.ANGLE) > 0
             THEN [ i \in 1..Len(loc.ANGLE) |-> RotDefi(loc.AXIS[i], loc.ANGLE[i], Zero3) ]
             ELSE GimbalSteps(GetGimbalAngles(loc.MATRIX), 1))

C8_InverseSteps(steps) ==
    Reversed(SeqMap(LAMBDA s : RotDefi(s.axis, 0 - s.theta, VNeg(s.DD)), steps))

\* the first place (1-based) of the prototype used at place k
C8_First(k) == FirstIdx(op.myProtoList, LAMBDA p : p = op.myProtoList[k], 1)

\* the cell is a LATTICE cell whose transformation is the placement at
\* loc relative to the placement at first
C8_DeltaCell(g, loc, first) ==
    /\ g.bods = << >>
    /\ Len(g.regs) = 1
    /\ IsLattice(g.regs[1])
    /\ FindByName(g.tras, g.regs[1].tr).e # NoneVal
    /\ SameMap(FindByName(g.tras, g.regs[1].tr).e.steps,
               C8_PlacementSteps(loc) \o C8_InverseSteps(C8_PlacementSteps(first)))

\* C8: in BuildGriddedGeo with lLattice=True the first placement of a
\* prototype yields a full clone, and every later placement of the same
\* prototype yields a geometry with no bodies and exactly one LATTICE
\* region whose linked transformation is the displacement and rotation of
\* that placement relative to the first placement of the prototype, both
\* when the placement is given by angles and axes and when it is given by
\* a matrix.
C8_LatticeDelta ==
    (op.name = "BuildGriddedGeo" /\ op.lLattice /\ halt = "run") =>
        \A k \in 1..Len(hist) :
            IF C8_First(k) = k
            THEN /\ Len(hist[k].bods) = Len(geo.bods)
                 /\ Len(hist[k].regs) = Len(geo.regs)
                 /\ \A r \in Range(hist[k].regs) : ~IsLattice(r)
            ELSE C8_DeltaCell(hist[k], op.myGrid[k], op.myGrid[C8_First(k)])

\* ------------------------------------------------------------------------
\* Specification of the relation lookups of Geometry.ret: a geometry whose
\* regions name bodies in their definitions and whose bodies, lattice
\* regions and USRBINs are linked to transformations is queried with
\* BODSINREG and TRANSFLINKEDTO*.  Names are lists of characters.
\* ------------------------------------------------------------------------

MaxRelEnts == 2

RelName(c, i) == <<c, DigitChar(i)>>

\* the transformations an entity may be linked to (none, the first, the
\* second)
RelLinks == { << >>, RelName("T", 1), RelName("T", 2) }

\* the definitions of a region: the bodies in increasing or decreasing order
RelDefs ==
    { ZoneText([ i \in 1..MaxRelEnts |-> RelName("B", i) ], 1),
      ZoneText([ i \in 1..MaxRelEnts |-> RelName("B", MaxRelEnts + 1 - i) ], 1) }

RelGeo(bl, rd, ll, ul, tn) ==
    [ EmptyGeo EXCEPT
        !.bods = [ i \in 1..MaxRelEnts |-> Body(RelName("B", i), bl[i]) ],
        !.regs = [ i \in 1..MaxRelEnts |->
            [ Region(RelName("R", i)) EXCEPT
                !.def = rd[i],
                !.lat = IF ll[i] # << >> THEN RelName("L", i) ELSE << >>,
                !.tr = ll[i] ] ],
        !.tras = [ i \in 1..Len(tn) |-> Transformation(i, tn[i]) ],
        !.bins = [ i \in 1..MaxRelEnts |-> Usrbin(RelName("U", i), ul[i]) ] ]

InitRel ==
    /\ \E bl \in [1..MaxRelEnts -> RelLinks], rd \in [1..MaxRelEnts -> RelDefs],
          ll \in [1..MaxRelEnts -> RelLinks], ul \in [1..MaxRelEnts -> RelLinks],
          tn \in { <<RelName("T", 1), RelName("T", 2)>>, <<RelName("T", 2)>> } :
            geo = RelGeo(bl, rd, ll, ul, tn)
    /\ pre = EmptyGeo
    /\ op = [name |-> "init"]
    /\ out = NoneVal
    /\ halt = "run"
    /\ hist = << >>
    /\ ps = NoPs

RelKeys == {"BODSINREG", "TRANSFLINKEDTOBODY", "TRANSFLINKEDTOLAT", "TRANSFLINKEDTOUSRBIN"}

\* myEntry, iEntry = geo.ret(myKey, "ALL")
RetRelAll ==
    /\ halt = "run" /\ op.name = "init"
    /\ \E k \in RelKeys : \E r \in RetSet(geo, k, "ALL") :
         /\ op' = [name |-> "ret", key |-> k, value |-> "ALL", lFound |-> FoundAll(k)]
         /\ out' = r
    /\ pre' = geo
    /\ UNCHANGED <<geo, halt, hist, ps>>

\* myEntry, iEntry = geo.ret("BODSINREG", name of a region)
RetBodsInReg ==
    /\ halt = "run" /\ op.name = "init"
    /\ \E i \in 1..Len(geo.regs) : \E r \in RetSet(geo, "BODSINREG", geo.regs[i].name) :
         /\ op' = [name |-> "ret", key |-> "BODSINREG", value |-> geo.regs[i].name]
         /\ out' = r
    /\ pre' = geo
    /\ UNCHANGED <<geo, halt, hist, ps>>

NextRel == RetRelAll \/ RetBodsInReg

SpecRel == InitRel /\ [][NextRel]_vars

\* the related names of a selector, as met while scanning the owning
\* collection (with repetitions)
C16_Related ==
    CASE op.key = "BODSINREG" ->
           Concat([ i \in 1..Len(geo.regs) |-> Words(geo.regs[i].def, << >>) ])
      [] op.key = "TRANSFLINKEDTOBODY" ->
           SeqMap(LAMBDA b : b.tr, SelectSeq(geo.bods, IsLinked))
      [] op.key = "TRANSFLINKEDTOLAT" ->
           SeqMap(LAMBDA r : r.tr,
                  SelectSeq(geo.regs, LAMBDA r : IsLattice(r) /\ IsLinked(r)))
      [] op.key = "TRANSFLINKEDTOUSRBIN" ->
           SeqMap(LAMBDA b : b.tr, SelectSeq(geo.bins, IsLinked))

\* the collection the related names are looked up in
C16_Target == IF op.key = "BODSINREG" THEN geo.bods ELSE geo.tras

\* C16: for BODSINREG, TRANSFLINKEDTOBODY, TRANSFLINKEDTOLAT and
\* TRANSFLINKEDTOUSRBIN, ret(selector,"ALL") returns each related name
\* exactly once, in the order in which it is first met while scanning the
\* owning collection, together with the index of each name (a list of
\* indices, not the index -1 of the not-found result).
C16_RelationAllFirstSeen ==
    (op.name = "ret" /\ op.value = "ALL" /\ op.key \in RelKeys) =>
        /\ op.lFound
        /\ \A i, j \in 1..Len(out.e) : i # j => out.e[i] # out.e[j]
        /\ Range(out.e) = Range(C16_Related)
        /\ \A i, j \in 1..Len(out.e) :
             i < j => FirstIdx(C16_Related, LAMBDA n : n = out.e[i], 1)
                        < FirstIdx(C16_Related, LAMBDA n : n = out.e[j], 1)
        /\ Len(out.i) = Len(out.e)
        /\ \A i \in 1..Len(out.e) :
             out.i[i] = FirstIdx(C16_Target, LAMBDA t : t.name = out.e[i], 1) - 1

\* ------------------------------------------------------------------------
\* Specification of the material assignment: ASSIGNMA cards are applied by
\* Geometry.assignma to a geometry of one to MaxAsgRegs regions.
\* ------------------------------------------------------------------------

MaxAsgRegs == 3

\* the region names a card may give: the regions R1, R2, ... and a name that
\* no region has
AsgNames == { MapRegName(i) : i \in 1..MaxAsgRegs } \cup { "R9" }

\* ASSIGNMA cards: material and first region; and last region; and step
AsgCards ==
    { Line("ASSIGNMA", <<m, f>>, NoText) : m \in {"IRON", "LEAD"}, f \in AsgNames }
    \cup { Line("ASSIGNMA", <<m, f, l>>, NoText) :
             m \in {"IRON", "LEAD"}, f \in AsgNames, l \in AsgNames }
    \cup { Line("ASSIGNMA", <<"IRON", f, l, "2">>, NoText) : f \in AsgNames, l \in AsgNames }

InitAssign ==
    /\ \E n \in 1..MaxAsgRegs : geo = MapGeo(n)
    /\ pre = EmptyGeo
    /\ op = [name |-> "init"]
    /\ out = NoneVal
    /\ halt = "run"
    /\ hist = << >>
    /\ ps = NoPs

\* myGeo.assignma(tmpLine)
AssignMa ==
    /\ halt = "run"
    /\ \E l \in AsgCards : \E r \in { assignma(geo, l) } :
          /\ op' = [name |-> "assignma", line |-> l]
          /\ geo' = IF r = ExitVal THEN geo ELSE r
          /\ halt' = IF r = ExitVal THEN "exit" ELSE "run"
    /\ pre' = geo
    /\ UNCHANGED <<out, hist, ps>>

NextAssign == AssignMa

SpecAssign == InitAssign /\ [][NextAssign]_vars

\* C17: a material-assignment card whose first or last region name is not a
\* region of the geometry halts the program and changes the material of no
\* region.
C17_UnknownRegionIsFatal ==
    (/\ op.name = "assignma"
     /\ \/ op.line.w[2] \notin Range(Names(pre.regs))
        \/ Len(op.line.w) >= 3 /\ op.line.w[3] \notin Range(Names(pre.regs)))
    => (halt = "exit" /\ geo = pre)

\* ------------------------------------------------------------------------
\* Region.merge.  A definition is a text, as a list of characters ("\n" ends
\* a line) in which a fixed piece of text (the words of a comment written by
\* merge, the spacing) is one element; a comment is a list of lines.
\* ------------------------------------------------------------------------

\* str.split(sep) for a separator of one character
RECURSIVE SplitBy(_, _, _)
SplitBy(s, sep, cur) ==
    IF s = << >> THEN <<cur>>
    ELSE IF s[1] = sep THEN <<cur>> \o SplitBy(Tail(s), sep, << >>)
    ELSE SplitBy(Tail(s), sep, Append(cur, s[1]))

\* spacing=" "*16
Spacing == "                "

\* str.strip(): blanks and ends of line
RECURSIVE StripWs(_)
StripWs(s) ==
    IF s = << >> THEN s
    ELSE IF s[1] \in {" ", "\n", Spacing} THEN StripWs(Tail(s))
    ELSE IF s[Len(s)] \in {" ", "\n", Spacing} THEN StripWs(SubSeq(s, 1, Len(s) - 1))
    ELSE s

\* "%d" % n
FmtD(n) == ZeroPad(n, 1)

\* GeoObject.tailMe: the lines are added at the end of the comment
TailMe(r, lines) == [r EXCEPT !.comment = @ \o lines]

\* "* --> merged with region %s <--"
MergedWith(name) == <<"*", " --> merged with region ">> \o name \o <<" <--">>

\* "* merging zone %s:%d into %s:%d"
MergingZone(newName, jj, name, ii) ==
    <<"*", " merging zone ">> \o newName \o <<":">> \o FmtD(jj) \o <<" into ">>
    \o name \o <<":">> \o FmtD(ii)

\* the pairs of the two loops of merge: the non-empty zones, each with its
\* position (from 1) among the pieces that "|" separates
ZonePairs(myRegZones, newRegZones) ==
    Concat([ ii \in 1..Len(myRegZones) |->
        IF Len(StripWs(myRegZones[ii])) > 0
        THEN SeqMap(LAMBDA jj : [ii |-> ii, jj |-> jj, sMy |-> StripWs(myRegZones[ii]),
                                 sNew |-> StripWs(newRegZones[jj])],
                    SelectSeq([ jj \in 1..Len(newRegZones) |-> jj ],
                              LAMBDA jj : Len(StripWs(newRegZones[jj])) > 0))
        ELSE << >> ])

\* mergedDef after the pairs from k on
RECURSIVE MergedDef(_, _, _, _)
MergedDef(pairs, k, newName, name) ==
    IF k > Len(pairs) THEN << >>
    ELSE (IF k = 1 THEN << >>
          ELSE <<"\n">> \o MergingZone(newName, pairs[k].jj, name, pairs[k].ii)
               \o <<"\n", Spacing>>)
         \o <<"|", " ">> \o pairs[k].sMy \o <<" ">> \o pairs[k].sNew
         \o MergedDef(pairs, k + 1, newName, name)

\* merge once the zones are paired
MergeWith(r, newReg, pairs) ==
    [ TailMe(r, << MergedWith(newReg.name) >>
                \o newReg.comment
                \o (IF pairs = << >> THEN << >>
                    ELSE << MergingZone(newReg.name, pairs[1].jj, r.name, pairs[1].ii) >>))
      EXCEPT !.def = MergedDef(pairs, 1, newReg.name, r.name),
             !.neigh = r.neigh + newReg.neigh,
             !.rCont = 0, !.rCent = Zero3 ]

\* Region.merge(self,newReg): self afterwards
RegionMerge(r, newReg) ==
    MergeWith(r, newReg, ZonePairs(SplitBy(r.def, "|", << >>), SplitBy(newReg.def, "|", << >>)))

\* ------------------------------------------------------------------------
\* Specification of Region.merge: the first region of geo absorbs, one after
\* the other, at most MaxMerges regions.
\* ------------------------------------------------------------------------

MaxMerges == 2

\* definitions of the surviving region: one zone, two zones on two lines, two
\* zones with a commented line in between, none (a lattice placeholder)
SurvivorDefs ==
    { <<"+", "A">>,
      <<"|", " ", "+", "A", "\n", " ", "|", " ", "+", "B">>,
      <<"|", " ", "+", "A", "\n", "*", " ", "c", "\n", " ", "|", " ", "+", "B">>,
      << >> }

\* the regions absorbed: one zone, two zones, none; with or without a
\* comment; with 5 or 7 neighbours
AbsorbedRegs ==
    { [ Region(<<"N", "1">>) EXCEPT !.def = d, !.neigh = n, !.comment = c, !.rCont = -1 ] :
        d \in { <<"-", "X">>, <<"|", "-", "X", " ", "|", "-", "Y">>, << >> },
        n \in {5, 7},
        c \in { << >>, << <<"*", " ", "n">> >> } }

InitZone ==
    /\ \E d \in SurvivorDefs :
         geo = [EmptyGeo EXCEPT
                  !.regs = << [Region(<<"S", "1">>) EXCEPT !.def = d, !.rCont = 1] >>]
    /\ pre = EmptyGeo
    /\ op = [name |-> "init"]
    /\ out = NoneVal
    /\ halt = "run"
    /\ hist = << >>
    /\ ps = [on |-> FALSE, n |-> 0]

\* geo.regs[0].merge(newReg)
MergeRegion ==
    /\ halt = "run" /\ ps.n < MaxMerges
    /\ \E newReg \in AbsorbedRegs :
          /\ geo' = [geo EXCEPT !.regs[1] = RegionMerge(@, newReg)]
          /\ op' = [name |-> "merge", newReg |-> newReg]
    /\ pre' = geo
    /\ ps' = [ps EXCEPT !.n = @ + 1]
    /\ UNCHANGED <<out, halt, hist>>

NextZone == MergeRegion

SpecZone == InitZone /\ [][NextZone]_vars

\* the lines of a text that are no comment lines, joined again
RECURSIVE C18_Join(_)
C18_Join(ls) ==
    IF ls = << >> THEN << >>
    ELSE IF Len(ls) = 1 THEN ls[1]
    ELSE ls[1] \o <<"\n">> \o C18_Join(Tail(ls))

C18_NoComments(def) ==
    C18_Join(SelectSeq(SplitBy(def, "\n", << >>), LAMBDA l : l = << >> \/ l[1] # "*"))

\* the non-empty zones of a definition: what "|" separates once the comment
\* lines are left out
C18_Zones(def) ==
    SelectSeq(SeqMap(StripWs, SplitBy(C18_NoComments(def), "|", << >>)),
              LAMBDA z : z # << >>)

\* the zones of survivor x absorbed, survivor-major
C18_Product(zm, zn) ==
    [ k \in 1..(Len(zm) * Len(zn)) |->
        zm[((k - 1) \div Len(zn)) + 1] \o <<" ">> \o zn[((k - 1) % Len(zn)) + 1] ]

\* C18: after Region.merge the definition of the surviving region consists
\* of exactly one zone for every pair (non-empty zone of the survivor,
\* non-empty zone of the absorbed region), survivor-major, each being the
\* survivor zone followed by the absorbed zone; a survivor or an absorbed
\* region with an empty definition leaves the survivor with an empty
\* definition.
C18_ZoneCrossProduct ==
    (op.name = "merge") =>
        /\ C18_Zones(geo.regs[1].def)
             = C18_Product(C18_Zones(pre.regs[1].def), C18_Zones(op.newReg.def))
        /\ (pre.regs[1].def = << >> \/ op.newReg.def = << >>) => geo.regs[1].def = << >>


\* ------------------------------------------------------------------------
\* Geometry.appendGeometries and Geometry.MergeGeos.  Both take lists of
\* geometries and change some of them in place: they give the geometry
\* returned (new) and the geometries handed over as they are afterwards.
\* ------------------------------------------------------------------------

\* "for ii,myTras in enumerate(myGeo.tras,1): myTras.ID=ii+len(new.tras)"
Renumbered(tras, n) == [ ii \in 1..Len(tras) |-> [tras[ii] EXCEPT !.ID = ii + n] ]

\* one turn of the loop of appendGeometries, the regions put in front
AppendOneInFront(new, myGeo) ==
    [new EXCEPT !.bods = @ \o myGeo.bods,
                !.regs = myGeo.regs \o @,
                !.tras = @ \o Renumbered(myGeo.tras, Len(new.tras)),
                !.bins = @ \o myGeo.bins,
                !.scos = @ \o myGeo.scos]

\* one turn of the loop of appendGeometries
AppendOne(new, myGeo) ==
    [new EXCEPT !.bods = @ \o myGeo.bods,
                !.regs = @ \o myGeo.regs,
                !.tras = @ \o Renumbered(myGeo.tras, Len(new.tras)),
                !.bins = @ \o myGeo.bins,
                !.scos = @ \o myGeo.scos]

\* the loop over myGeos[1:], from myGeos[k] on (k from 1)
RECURSIVE AppendLoop(_, _, _)
AppendLoop(new, myGeos, k) ==
    IF k > Len(myGeos) THEN [new |-> new, geos |-> myGeos]
    ELSE AppendLoop(AppendOne(new, myGeos[k]),
                    [myGeos EXCEPT ![k].tras = Renumbered(@, Len(new.tras))],
                    k + 1)

\* Geometry.appendGeometries(myGeos,myTitle), myTitle being None or a text t
\* given as [t |-> t]
appendGeometries(myGeos, myTitle) ==
    IF myGeos = << >> THEN ExitVal
    ELSE [ AppendLoop(myGeos[1], myGeos, 2)
           EXCEPT !.new.title = IF myTitle = NoneVal THEN <<"appended", "geometries">>
                                ELSE myTitle.t ]

\* list.pop(i)
PyPop(s, i) ==
    [ k \in 1..(Len(s) - 1) |->
        IF k < (IF i < 0 THEN Len(s) + i + 1 ELSE i + 1) THEN s[k] ELSE s[k + 1] ]

\* the merges of mode "oneGrid", from the k-th pair of the mapping on: the
\* hive region absorbs the grid region
RECURSIVE MergeLoop(_, _, _, _)
MergeLoop(hiveGeo, gridGeo, mapping, k) ==
    IF k > Len(mapping.iRhg) THEN hiveGeo
    ELSE MergeLoop([hiveGeo EXCEPT ![mapping.jRhg[k] + 1].regs[mapping.iRhg[k] + 1] =
                       RegionMerge(@, gridGeo[mapping.jRgg[k] + 1].regs[mapping.iRgg[k] + 1])],
                   gridGeo, mapping, k + 1)

\* removeRegs and jRemoveRegs after the pairs from k on: the names of the
\* regions of geos the pairs (jR, iR) point at, each name once
RECURSIVE RemoveRegs(_, _, _, _, _)
RemoveRegs(geos, jR, iR, k, acc) ==
    IF k > Len(iR) THEN acc
    ELSE RemoveRegs(geos, jR, iR, k + 1,
                    IF \E a \in 1..Len(acc) : acc[a].name = geos[jR[k] + 1].regs[iR[k] + 1].name
                    THEN acc
                    ELSE Append(acc, [name |-> geos[jR[k] + 1].regs[iR[k] + 1].name,
                                      j |-> jR[k]]))

\* "myReg,iReg=geos[jRemoveReg].ret("REG",removeReg);
\*  geos[jRemoveReg].regs.pop(iReg)" from the k-th name on
RECURSIVE PopRegs(_, _, _)
PopRegs(geos, removeRegs, k) ==
    IF k > Len(removeRegs) THEN geos
    ELSE PopRegs([geos EXCEPT ![removeRegs[k].j + 1].regs =
                     PyPop(@, FindByName(@, removeRegs[k].name).i)],
                 removeRegs, k + 1)

\* the two lists as MergeGeos leaves them before they are appended; in mode
\* "oneHive" the first pair calls merge(...,lCopyComment=lFirst), an argument
\* Region.merge(self,newReg,spacing) does not have: the call raises
MergedLists(hiveGeo, gridGeo, mapping, mapType) ==
    IF mapType = "oneHive" THEN
        IF Len(mapping.iRhg) > 0 THEN ExitVal
        ELSE [hive |-> hiveGeo, grid |-> gridGeo]
    ELSE IF mapType = "oneGrid" THEN
        [hive |-> MergeLoop(hiveGeo, gridGeo, mapping, 1),
         grid |-> PopRegs(gridGeo,
                          RemoveRegs(gridGeo, mapping.jRgg, mapping.iRgg, 1, << >>), 1)]
    ELSE ExitVal

\* appendGeometries(hiveGeo+gridGeo,myTitle=myTitle), given back with the two
\* lists apart
AppendLists(ls, myTitle) ==
    IF ls = ExitVal THEN ExitVal
    ELSE [new |-> appendGeometries(ls.hive \o ls.grid, myTitle).new,
          hive |-> SubSeq(appendGeometries(ls.hive \o ls.grid, myTitle).geos, 1, Len(ls.hive)),
          grid |-> SubSeq(appendGeometries(ls.hive \o ls.grid, myTitle).geos,
                          Len(ls.hive) + 1, Len(ls.hive) + Len(ls.grid))]

\* Geometry.MergeGeos(hiveGeo,gridGeo,mapping,mapType,myTitle)
MergeGeos(hiveGeo, gridGeo, mapping, mapType, myTitle) ==
    AppendLists(MergedLists(hiveGeo, gridGeo, mapping, mapType), myTitle)


\* ------------------------------------------------------------------------
\* Specification of appendGeometries and MergeGeos: geo holds the list of
\* hive geometries and the list of grid geometries; one of the two methods
\* is called on them, op keeps the arguments as they were handed over.
\* ------------------------------------------------------------------------

MaxMrgRegs == 2

\* the i-th region of the geometry tag: one zone, i neighbours more than a
\* new region has
MrgRegion(tag, i, rCont) ==
    [ Region(<<tag, DigitChar(i)>>) EXCEPT !.def = <<"+", tag>>, !.neigh = @ + i,
                                          !.rCont = rCont ]

\* a geometry of n regions, bare or with a body, a transformation, a USRBIN
\* and a scoring of its own
MrgGeo(tag, n, lFull, rCont) ==
    [ EmptyGeo EXCEPT
        !.regs = [ i \in 1..n |-> MrgRegion(tag, i, rCont) ],
        !.bods = IF lFull THEN << Body(<<tag, "b">>, <<tag, "t">>) >> ELSE << >>,
        !.tras = IF lFull THEN << Transformation(1, <<tag, "t">>) >> ELSE << >>,
        !.bins = IF lFull THEN << Usrbin(<<tag, "u">>, <<tag, "t">>) >> ELSE << >>,
        !.scos = IF lFull THEN << Scoring(<<tag, "s">>, "USRBDX") >> ELSE << >>,
        !.title = <<tag>> ]

\* lists of one geometry, or of two with at most MaxMrgRegs regions in all
MrgLists(tag1, tag2, rCont) ==
    { << MrgGeo(tag1, n, f, rCont) >> : n \in 1..MaxMrgRegs, f \in BOOLEAN }
    \cup { << MrgGeo(tag1, nm[1], f1, rCont), MrgGeo(tag2, nm[2], f2, rCont) >> :
             nm \in { x \in (1..MaxMrgRegs) \X (1..MaxMrgRegs) : x[1] + x[2] <= MaxMrgRegs },
             f1 \in BOOLEAN, f2 \in BOOLEAN }

\* the places <<j, i>> (from 0) of the regions of a list of geometries
MrgPlaces(geos) ==
    { p \in (0..(Len(geos) - 1)) \X (0..(MaxMrgRegs - 1)) : p[2] + 1 <= Len(geos[p[1] + 1].regs) }

\* the mappings of at most MaxMrgRegs pairs, no pair twice
MrgMappings(hiveGeo, gridGeo) ==
    { [iRhg |-> [k \in DOMAIN s |-> s[k][1][2]], jRhg |-> [k \in DOMAIN s |-> s[k][1][1]],
       iRgg |-> [k \in DOMAIN s |-> s[k][2][2]], jRgg |-> [k \in DOMAIN s |-> s[k][2][1]]] :
        s \in { t \in UNION { [1..n -> MrgPlaces(hiveGeo) \X MrgPlaces(gridGeo)] :
                                n \in 0..MaxMrgRegs } :
                  \A a, b \in DOMAIN t : a # b => t[a] # t[b] } }

MrgTitles == { NoneVal, [t |-> <<"merged">>] }

InitMerge ==
    /\ \E h \in MrgLists("H", "I", 1), g \in MrgLists("G", "K", -1) :
          geo = [hive |-> h, grid |-> g]
    /\ pre = EmptyGeo
    /\ op = [name |-> "init"]
    /\ out = NoneVal
    /\ halt = "run"
    /\ hist = << >>
    /\ ps = NoPs

\* Geometry.appendGeometries(hiveGeo+gridGeo,myTitle) or
\* Geometry.appendGeometries(gridGeo+hiveGeo,myTitle)
AppendGeometries ==
    /\ halt = "run"
    /\ \E myTitle \in MrgTitles, lHiveFirst \in BOOLEAN :
       \E r \in { appendGeometries(IF lHiveFirst THEN geo.hive \o geo.grid
                                   ELSE geo.grid \o geo.hive, myTitle) } :
          /\ out' = r.new
          /\ geo' = IF lHiveFirst
                    THEN [hive |-> SubSeq(r.geos, 1, Len(geo.hive)),
                          grid |-> SubSeq(r.geos, Len(geo.hive) + 1, Len(r.geos))]
                    ELSE [grid |-> SubSeq(r.geos, 1, Len(geo.grid)),
                          hive |-> SubSeq(r.geos, Len(geo.grid) + 1, Len(r.geos))]
          /\ op' = [name |-> "appendGeometries", lHiveFirst |-> lHiveFirst,
                    myGeos |-> IF lHiveFirst THEN geo.hive \o geo.grid
                               ELSE geo.grid \o geo.hive,
                    myTitle |-> myTitle]
    /\ halt' = "done"
    /\ UNCHANGED <<pre, hist, ps>>

\* Geometry.MergeGeos(hiveGeo,gridGeo,mapping,mapType,myTitle=myTitle)
MergeGeometries ==
    /\ halt = "run"
    /\ \E mapType \in {"oneHive", "oneGrid", "oneEach"}, myTitle \in MrgTitles :
       \E mapping \in MrgMappings(geo.hive, geo.grid) :
       \E r \in { MergeGeos(geo.hive, geo.grid, mapping, mapType, myTitle) } :
          /\ out' = IF r = ExitVal THEN NoneVal ELSE r.new
          /\ geo' = IF r = ExitVal THEN geo ELSE [hive |-> r.hive, grid |-> r.grid]
          /\ halt' = IF r = ExitVal THEN "exit" ELSE "done"
          /\ op' = [name |-> "MergeGeos", hiveGeo |-> geo.hive, gridGeo |-> geo.grid,
                    mapping |-> mapping, mapType |-> mapType, myTitle |-> myTitle]
    /\ UNCHANGED <<pre, hist, ps>>

NextMerge == AppendGeometries \/ MergeGeometries

SpecMerge == InitMerge /\ [][NextMerge]_vars


\* the region of a list of geometries at place <<j, i>> (from 0)
C19_At(geos, p) == geos[p[1] + 1].regs[p[2] + 1]

\* the places of the surviving and of the absorbed region of the k-th pair,
\* each with the list it belongs to: in mode "oneGrid" the hive region
\* survives, in mode "oneHive" the grid region
C19_Hive(k) == <<"hive", <<op.mapping.jRhg[k], op.mapping.iRhg[k]>> >>

C19_Grid(k) == <<"grid", <<op.mapping.jRgg[k], op.mapping.iRgg[k]>> >>

C19_Survivor(k) == IF op.mapType = "oneGrid" THEN C19_Hive(k) ELSE C19_Grid(k)

C19_Absorbed(k) == IF op.mapType = "oneGrid" THEN C19_Grid(k) ELSE C19_Hive(k)

\* the region at a place, before the call
C19_Before(q) == C19_At(IF q[1] = "hive" THEN op.hiveGeo ELSE op.gridGeo, q[2])

C19_AllPlaces ==
    ({"hive"} \X MrgPlaces(op.hiveGeo)) \cup ({"grid"} \X MrgPlaces(op.gridGeo))

\* the neighbours of the regions the pairs from k on make q absorb
RECURSIVE C19_Gain(_, _)
C19_Gain(q, k) ==
    IF k > Len(op.mapping.iRhg) THEN 0
    ELSE (IF C19_Survivor(k) = q THEN C19_Before(C19_Absorbed(k)).neigh ELSE 0)
         + C19_Gain(q, k + 1)

\* the regions of the merged geometry of the name that q had
C19_After(q) == SelectSeq(out.regs, LAMBDA r : r.name = C19_Before(q).name)

\* C19: after MergeGeos with a mapping of mode "oneHive" or "oneGrid", the
\* surviving region of every pair has as many neighbours more as the regions
\* it absorbed had, and the containment tag 0; no absorbed region is in the
\* merged geometry, which has as many regions as there were in all less the
\* distinct absorbed ones; the regions in no pair keep their definition,
\* their neighbours and their containment tag.
C19_MergeBookkeeping ==
    (op.name = "MergeGeos" /\ op.mapType \in {"oneHive", "oneGrid"}) =>
        LET pairs == 1..Len(op.mapping.iRhg)
            S == { C19_Survivor(k) : k \in pairs }
            A == { C19_Absorbed(k) : k \in pairs }
        IN  /\ halt = "done"
            /\ \A q \in S :
                  /\ Len(C19_After(q)) = 1
                  /\ C19_After(q)[1].neigh = C19_Before(q).neigh + C19_Gain(q, 1)
                  /\ C19_After(q)[1].rCont = 0
            /\ \A q \in A : C19_After(q) = << >>
            /\ Len(out.regs) = Cardinality(C19_AllPlaces) - Cardinality(A)
            /\ \A q \in C19_AllPlaces \ (S \cup A) :
                  /\ Len(C19_After(q)) = 1
                  /\ C19_After(q)[1].def = C19_Before(q).def
                  /\ C19_After(q)[1].neigh = C19_Before(q).neigh
                  /\ C19_After(q)[1].rCont = C19_Before(q).rCont


\* the geometries handed over to appendGeometries, as they are after the call
C20_After == IF op.lHiveFirst THEN geo.hive \o geo.grid ELSE geo.grid \o geo.hive

\* a transformation without its ID
C20_NoID(t) == [name |-> t.name, steps |-> t.steps, comment |-> t.comment]

\* C20: the geometry that appendGeometries returns holds, kind by kind, the
\* bodies, the regions, the transformations, the USRBINs and the scorings of
\* the geometries handed over, in the order of the list and in the order of
\* every geometry; the first geometry handed over is not modified (the later
\* ones are but for the ID of their transformations, numbered on).
C20_AppendConcatenates ==
    (op.name = "appendGeometries") =>
        /\ halt = "done"
        /\ out.bods = Concat(SeqMap(LAMBDA g : g.bods, op.myGeos))
        /\ out.regs = Concat(SeqMap(LAMBDA g : g.regs, op.myGeos))
        /\ out.bins = Concat(SeqMap(LAMBDA g : g.bins, op.myGeos))
        /\ out.scos = Concat(SeqMap(LAMBDA g : g.scos, op.myGeos))
        /\ out.tras = Concat(SeqMap(LAMBDA g : g.tras, C20_After))
        /\ SeqMap(C20_NoID, out.tras)
             = SeqMap(C20_NoID, Concat(SeqMap(LAMBDA g : g.tras, op.myGeos)))
        /\ C20_After[1] = op.myGeos[1]
        /\ Len(C20_After) = Len(op.myGeos)
        /\ \A k \in 1..Len(op.myGeos) :
              [C20_After[k] EXCEPT !.tras = SeqMap(C20_NoID, @)]
                = [op.myGeos[k] EXCEPT !.tras = SeqMap(C20_NoID, @)]

\* C20 witness: three geometries are appended, the first and the last with a
\* body, a transformation, a USRBIN and a scoring each, the last with two
\* regions; the last transformation is numbered on
C20_Witness ==
    /\ op.name = "appendGeometries"
    /\ halt = "done"
    /\ Len(op.myGeos) = 3
    /\ Len(op.myGeos[3].regs) = 2
    /\ Len(out.regs) = 4
    /\ Len(out.bods) = 2 /\ Len(out.bins) = 2 /\ Len(out.scos) = 2
    /\ Len(op.myGeos[1].tras) = 1 /\ Len(op.myGeos[3].tras) = 1
    /\ Len(out.tras) = 2
    /\ op.myGeos[3].tras[1].ID = 1
    /\ out.tras[2].ID = 2
    /\ out.regs[1].name = op.myGeos[1].regs[1].name
    /\ out.regs[4].name = op.myGeos[3].regs[2].name


\* ------------------------------------------------------------------------
\* Geometry.reAssiginUSRBINunits.  Of the definition of a USRBIN the unit
\* (signed) and the number of bins are kept.
\* ------------------------------------------------------------------------

AbsVal(x) == IF x < 0 THEN 0 - x ELSE x

\* Usrbin.getUnit, Usrbin.getNbins
GetUnit(b) == b.def.unit

GetNbins(b) == b.def.nbins

\* Usrbin.setUnit: the sign of the unit is kept
SetUnit(b, myUnit) ==
    [b EXCEPT !.def.unit = IF GetUnit(b) < 0 THEN 0 - AbsVal(myUnit) ELSE AbsVal(myUnit)]

FirstUnit == 21

LastUnit == 99

\* "uniqueUnits=list(set(...)); uniqueUnits.sort(key=abs)": the orders the
\* list can have, the order of two units of the same absolute value being
\* the one of the set
UniqueUnits(bins) ==
    { o \in Orderings({ GetUnit(b) : b \in Range(bins) }) :
        \A i, j \in 1..Len(o) : i < j => AbsVal(o[i]) <= AbsVal(o[j]) }

\* "while (currUnits[ii] in [abs(iu) for iu in usedUnits]): currUnits[ii]+=1",
\* 0 standing for exit(1)
RECURSIVE SkipUsed(_, _)
SkipUsed(u, usedUnits) ==
    IF u \in { AbsVal(iu) : iu \in usedUnits }
    THEN (IF u + 1 > LastUnit THEN 0 ELSE SkipUsed(u + 1, usedUnits))
    ELSE u

\* currUnits before the loop over the USRBINs
CurrUnits(n, usedUnits) == [ ii \in 1..n |-> SkipUsed(FirstUnit + ii - 1, usedUnits) ]

\* "while(myUnit<=max(currUnits) or myUnit in usedUnits): myUnit=myUnit+1",
\* 0 standing for exit(1)
RECURSIVE NextFree(_, _, _)
NextFree(myUnit, maxCurr, usedUnits) ==
    IF myUnit <= maxCurr \/ myUnit \in usedUnits
    THEN (IF myUnit + 1 > LastUnit THEN 0 ELSE NextFree(myUnit + 1, maxCurr, usedUnits))
    ELSE myUnit

SeqMax(s) == CHOOSE m \in Range(s) : \A x \in Range(s) : x <= m

\* the loop over the USRBINs, from the k-th on; lBins tells that the bins
\* are counted (nMaxBins) and not the USRBINs (nUSRBINs)
RECURSIVE AssignUnits(_, _, _, _, _, _, _, _)
AssignUnits(bins, k, uniqueUnits, currUnits, myN, nMax, lBins, usedUnits) ==
    IF k > Len(bins) THEN [bins |-> bins]
    ELSE LET iUnit == CHOOSE i \in 1..Len(uniqueUnits) : uniqueUnits[i] = GetUnit(bins[k])
             nAdd == IF lBins THEN GetNbins(bins[k]) ELSE 1
             myUnit == NextFree(currUnits[iUnit], SeqMax(currUnits), usedUnits)
         IN  IF myN[iUnit] + nAdd > nMax
             THEN IF myUnit = 0 THEN ExitVal
                  ELSE AssignUnits([bins EXCEPT ![k] = SetUnit(@, myUnit)], k + 1, uniqueUnits,
                                   [currUnits EXCEPT ![iUnit] = myUnit],
                                   [myN EXCEPT ![iUnit] = nAdd], nMax, lBins, usedUnits)
             ELSE AssignUnits([bins EXCEPT ![k] = SetUnit(@, currUnits[iUnit])], k + 1,
                              uniqueUnits, currUnits,
                              [myN EXCEPT ![iUnit] = @ + nAdd], nMax, lBins, usedUnits)

\* reAssiginUSRBINunits once uniqueUnits is sorted: the USRBINs afterwards,
\* as the field bins of a record
ReAssignWith(bins, uniqueUnits, nMaxBins, nUSRBINs, usedUnits) ==
    IF nMaxBins # 0 /\ nUSRBINs # 0 THEN ExitVal
    ELSE IF \E ii \in 1..Len(uniqueUnits) : CurrUnits(Len(uniqueUnits), usedUnits)[ii] = 0
         THEN ExitVal
    ELSE IF nMaxBins = 0 /\ nUSRBINs = 0 THEN ExitVal
    ELSE AssignUnits(bins, 1, uniqueUnits, CurrUnits(Len(uniqueUnits), usedUnits),
                     [ ii \in 1..Len(uniqueUnits) |-> 0 ],
                     IF nMaxBins # 0 THEN nMaxBins ELSE nUSRBINs, nMaxBins # 0, usedUnits)

\* Geometry.reAssiginUSRBINunits(nMaxBins,nUSRBINs,usedUnits), 0 standing for
\* None and usedUnits being a set of units: the geometries it can leave
reAssiginUSRBINunits(g, nMaxBins, nUSRBINs, usedUnits) ==
    { IF ReAssignWith(g.bins, o, nMaxBins, nUSRBINs, usedUnits) = ExitVal THEN ExitVal
      ELSE [g EXCEPT !.bins = ReAssignWith(g.bins, o, nMaxBins, nUSRBINs, usedUnits).bins] :
        o \in UniqueUnits(g.bins) }

\* ------------------------------------------------------------------------
\* Specification of reAssiginUSRBINunits: one call on a geometry of at most
\* MaxUnitBins USRBINs.
\* ------------------------------------------------------------------------

MaxUnitBins == 3

UnitBin(i, u, n) ==
    [Usrbin(<<"U", DigitChar(i)>>, << >>) EXCEPT !.def = [unit |-> u, nbins |-> n]]

InitUnits ==
    /\ \E n \in 1..MaxUnitBins :
       \E us \in [1..n -> {21, -21, 25}], ns \in [1..n -> {1, 2}] :
          geo = [EmptyGeo EXCEPT !.bins = [ i \in 1..n |-> UnitBin(i, us[i], ns[i]) ]]
    /\ pre = EmptyGeo
    /\ op = [name |-> "init"]
    /\ out = NoneVal
    /\ halt = "run"
    /\ hist = << >>
    /\ ps = NoPs

\* myGeo.reAssiginUSRBINunits(nMaxBins=..,nUSRBINs=..,usedUnits=..)
ReAssignUnits ==
    /\ halt = "run"
    /\ \E nMaxBins \in 0..2, nUSRBINs \in 0..2, usedUnits \in SUBSET {21, 22, 23} :
       \E r \in reAssiginUSRBINunits(geo, nMaxBins, nUSRBINs, usedUnits) :
          /\ op' = [name |-> "reAssiginUSRBINunits", nMaxBins |-> nMaxBins,
                    nUSRBINs |-> nUSRBINs, usedUnits |-> usedUnits]
          /\ pre' = geo
          /\ geo' = IF r = ExitVal THEN geo ELSE r
          /\ halt' = IF r = ExitVal THEN "exit" ELSE "done"
    /\ UNCHANGED <<out, hist, ps>>

NextUnits == ReAssignUnits

SpecUnits == InitUnits /\ [][NextUnits]_vars

\* what a USRBIN adds to the load of its unit
C26_Add(b) == IF op.nMaxBins # 0 THEN GetNbins(b) ELSE 1

\* the load of the new unit of the i-th USRBIN, once it is assigned: what
\* the USRBINs up to the i-th with its original unit and its new unit add
RECURSIVE C26_Load(_, _)
C26_Load(i, k) ==
    IF k > i THEN 0
    ELSE (IF GetUnit(pre.bins[k]) = GetUnit(pre.bins[i])
             /\ GetUnit(geo.bins[k]) = GetUnit(geo.bins[i])
          THEN C26_Add(pre.bins[k]) ELSE 0)
         + C26_Load(i, k + 1)

\* C26: after reAssiginUSRBINunits two USRBINs whose units differed do not
\* share a unit, and no USRBIN has a unit whose absolute value is in
\* usedUnits; of two USRBINs of the same unit that follow each other, the
\* second gets the unit of the first unless the capacity of that unit
\* (nMaxBins bins, nUSRBINs USRBINs) would be exceeded.
C26_UnitsKeptApart ==
    (op.name = "reAssiginUSRBINunits" /\ halt = "done") =>
        /\ \A i, j \in 1..Len(geo.bins) :
              GetUnit(pre.bins[i]) # GetUnit(pre.bins[j])
                 => GetUnit(geo.bins[i]) # GetUnit(geo.bins[j])
        /\ \A i \in 1..Len(geo.bins) : AbsVal(GetUnit(geo.bins[i])) \notin op.usedUnits
        /\ \A i, j \in 1..Len(geo.bins) :
              ( /\ i < j
                /\ GetUnit(pre.bins[i]) = GetUnit(pre.bins[j])
                /\ \A k \in (i + 1)..(j - 1) : GetUnit(pre.bins[k]) # GetUnit(pre.bins[i]) )
              => ( GetUnit(geo.bins[j]) = GetUnit(geo.bins[i])
                     <=> C26_Load(i, 1) + C26_Add(pre.bins[j])
                            <= (IF op.nMaxBins # 0 THEN op.nMaxBins ELSE op.nUSRBINs) )


\* ------------------------------------------------------------------------
\* Specification of the copies: one call of ActualCopy or of LatticeCopy on
\* a geometry with bodies, a region, possibly a LATTICE region and a USRBIN,
\* linked or not to transformations of the geometry.
\* ------------------------------------------------------------------------

\* new=Geometry.ActualCopy(myGeo,lTrigScoring=..)
CopyActual ==
    /\ halt = "run"
    /\ op.name = "init"
    /\ \E lTrigScoring \in BOOLEAN :
          /\ op' = [name |-> "ActualCopy", lTrigScoring |-> lTrigScoring]
          /\ geo' = ActualCopy(geo, lTrigScoring)
    /\ pre' = geo
    /\ UNCHANGED <<out, halt, hist, ps>>

\* new=Geometry.LatticeCopy(myGeo,lTrigScoring=..)
CopyLattice ==
    /\ halt = "run"
    /\ op.name = "init"
    /\ \E lTrigScoring \in BOOLEAN :
          /\ op' = [name |-> "LatticeCopy", lTrigScoring |-> lTrigScoring]
          /\ geo' = LatticeCopy(geo, lTrigScoring)
    /\ pre' = geo
    /\ UNCHANGED <<out, halt, hist, ps>>

NextCopy == CopyActual \/ CopyLattice

SpecCopy == InitTrasf /\ [][NextCopy]_vars

\* the transformations the bodies and the LATTICE regions of a geometry name
C29_Named(g) ==
    { b.tr : b \in { x \in Range(g.bods) : IsLinked(x) } }
    \cup { r.tr : r \in { x \in Range(g.regs) : IsLattice(x) /\ IsLinked(x) } }

\* C29: the copy made by ActualCopy or LatticeCopy with lTrigScoring=False
\* has no dangling link: a transformation named by a copied body or LATTICE
\* region is in the copy whenever it was in the source, and only
\* transformations that no copied entity names are removed.
C29_NoDanglingLinks ==
    (op.name \in {"ActualCopy", "LatticeCopy"} /\ ~op.lTrigScoring) =>
        /\ \A n \in C29_Named(geo) :
              (\E t \in Range(pre.tras) : t.name = n) => (\E t \in Range(geo.tras) : t.name = n)
        /\ \A t \in Range(pre.tras) :
              t \notin Range(geo.tras) => t.name \notin C29_Named(geo)


\* ------------------------------------------------------------------------
\* Specification of the IDs of the transformations: on a geometry with two
\* bodies and a LATTICE region, at most MaxIDOps of: a ROT-DEFI card parsed
\* (with an ID or without), solidTrasform recording a translation, a copy
\* without scorings, another geometry appended.
\* ------------------------------------------------------------------------

MaxIDOps == 4

T2 == <<"T", "2">>

T9 == <<"T", "9">>

\* the geometry appended: one body linked to its own transformation
OtherGeo ==
    [ EmptyGeo EXCEPT !.bods = << TrasfBody(9, T9) >>,
                      !.tras = << OldTransformation(1, T9) >> ]

InitIDs ==
    /\ \E lat \in BOOLEAN :
          geo = [ EmptyGeo EXCEPT
                    !.bods = << TrasfBody(1, << >>) >>,
                    !.regs = << PlainRegion(<< TrasfBody(1, << >>) >>) >> \o
                             (IF lat THEN << LatRegion(<< >>) >> ELSE << >>) ]
    /\ pre = EmptyGeo
    /\ op = [name |-> "init"]
    /\ out = NoneVal
    /\ halt = "run"
    /\ hist = << >>
    /\ ps = NoPs

\* a ROT-DEFI card of the input, once RotDefi.fromBuf has read it: ID is -1
\* when the card gives none
ParseRotDefi ==
    /\ halt = "run" /\ Len(hist) < MaxIDOps
    /\ \E n \in { T1, T2 }, id \in { -1, 1, 2 } :
          /\ geo' = rotdefiAt(geo, [step |-> RotDefi(1, 90, Zero3), ID |-> id, name |-> n],
                              FindByName(geo.tras, n).i)
          /\ op' = [name |-> "rotdefi", myName |-> n, ID |-> id]
          /\ hist' = Append(hist, IF id = -1 THEN "rotdefi" ELSE "rotdefi with ID")
    /\ pre' = geo
    /\ UNCHANGED <<out, halt, ps>>

\* myGeo.solidTrasform(dd=[0,0,10],lGeoDirs=True,myName=..)
SolidTrasformIDs ==
    /\ halt = "run" /\ Len(hist) < MaxIDOps
    /\ \E myName \in { ToFinPos, MyPos }, lGeoDirs \in BOOLEAN :
       \E r \in { solidTrasform(geo, [v |-> <<0, 0, 10>>], NoneVal, NoneVal, lGeoDirs, TRUE,
                                FALSE, myName, NoneVal) } :
          /\ geo' = IF r = ExitVal THEN geo ELSE r
          /\ halt' = IF r = ExitVal THEN "exit" ELSE "run"
          /\ op' = [name |-> "solidTrasform", myName |-> myName, lGeoDirs |-> lGeoDirs]
    /\ pre' = geo
    /\ hist' = Append(hist, "solidTrasform")
    /\ UNCHANGED <<out, ps>>

\* myGeo=Geometry.ActualCopy(myGeo,lTrigScoring=False)
ActualCopyIDs ==
    /\ halt = "run" /\ Len(hist) < MaxIDOps
    /\ geo' = ActualCopy(geo, FALSE)
    /\ op' = [name |-> "ActualCopy"]
    /\ pre' = geo
    /\ hist' = Append(hist, "ActualCopy")
    /\ UNCHANGED <<out, halt, ps>>

\* myGeo=Geometry.LatticeCopy(myGeo,lTrigScoring=False)
LatticeCopyIDs ==
    /\ halt = "run" /\ Len(hist) < MaxIDOps
    /\ geo' = LatticeCopy(geo, FALSE)
    /\ op' = [name |-> "LatticeCopy"]
    /\ pre' = geo
    /\ hist' = Append(hist, "LatticeCopy")
    /\ UNCHANGED <<out, halt, ps>>

\* myGeo=Geometry.appendGeometries([myGeo,otherGeo])
AppendIDs ==
    /\ halt = "run" /\ Len(hist) < MaxIDOps
    /\ "appendGeometries" \notin Range(hist)
    /\ geo' = appendGeometries(<< geo, OtherGeo >>, NoneVal).new
    /\ op' = [name |-> "appendGeometries"]
    /\ pre' = geo
    /\ hist' = Append(hist, "appendGeometries")
    /\ UNCHANGED <<out, halt, ps>>

NextIDs == ParseRotDefi \/ SolidTrasformIDs \/ ActualCopyIDs \/ LatticeCopyIDs \/ AppendIDs

SpecIDs == InitIDs /\ [][NextIDs]_vars

\* C30: the IDs of the transformations of a geometry are pairwise distinct
\* after any sequence of ROT-DEFI cards parsed (with an ID or without),
\* transformations created by solidTrasform, removals by ActualCopy and
\* LatticeCopy, and appendGeometries.
C30_DistinctIDs ==
    \A i, j \in 1..Len(geo.tras) : i # j => geo.tras[i].ID # geo.tras[j].ID

====
